---- MODULE Spec2Model ----
(***************************************************************************)
(* Gasket CAD generators (ellipse, flange, jumper, firetube): the form     *)
(* state machine of each page (input edits, Validate, CAD-name edits,      *)
(* Download) and the validation / clearance arithmetic behind it.          *)
(*                                                                         *)
(* Numbers.  The program computes in IEEE doubles.  Here a dimension is an *)
(* integer count of thousandths of an inch (Scale units per inch), the     *)
(* resolution to which the program itself rounds a derived ID.  Every text *)
(* a field can hold in this model denotes a multiple of 1/8 inch, so the   *)
(* halvings and sums of the validation code are exact.  NaN is a sentinel  *)
(* outside the range of every dimension.                                   *)
(*                                                                         *)
(* Texts.  A field value is a sequence of one-character strings, so that   *)
(* parseInches is modelled character by character.                         *)
(***************************************************************************)
EXTENDS Integers, Sequences, FiniteSets, TLC

\* thousandths of an inch per inch (firetube.js rounds the derived ID to 1/1000)
Scale == 1000

\* the value JavaScript's NaN stands for: no dimension ever equals it
NaN == -999999999

IsFinite(x) == x # NaN

Abs(x) == IF x < 0 THEN -x ELSE x
Min(a, b) == IF a <= b THEN a ELSE b
Max(a, b) == IF a >= b THEN a ELSE b

(***************************************************************************)
(* Text helpers (String.prototype.trim / replace / split / includes).      *)
(***************************************************************************)
Digits == <<"0", "1", "2", "3", "4", "5", "6", "7", "8", "9">>

IsDigit(c) == \E i \in 1..10 : Digits[i] = c

DigitVal(c) == (CHOOSE i \in 1..10 : Digits[i] = c) - 1

RECURSIVE TrimLeft(_)
TrimLeft(s) ==
  IF s # <<>> /\ Head(s) = " " THEN TrimLeft(Tail(s)) ELSE s

RECURSIVE TrimRight(_)
TrimRight(s) ==
  IF s # <<>> /\ s[Len(s)] = " " THEN TrimRight(SubSeq(s, 1, Len(s) - 1)) ELSE s

\* String.prototype.trim
Trim(s) == TrimRight(TrimLeft(s))

\* s.replace(/-/g, " ")
ReplaceHyphens(s) == [i \in 1..Len(s) |-> IF s[i] = "-" THEN " " ELSE s[i]]

\* s.replace(/\s+/g, " ")
RECURSIVE CollapseSpaces(_)
CollapseSpaces(s) ==
  IF Len(s) < 2 THEN s
  ELSE IF s[1] = " " /\ s[2] = " " THEN CollapseSpaces(Tail(s))
  ELSE <<s[1]>> \o CollapseSpaces(Tail(s))

\* s.includes(c)
Includes(s, c) == \E i \in 1..Len(s) : s[i] = c

\* s.split(c): the pieces between the separators, empty pieces included
RECURSIVE Split(_, _)
Split(s, c) ==
  IF ~Includes(s, c) THEN <<s>>
  ELSE LET i == CHOOSE k \in 1..Len(s) : s[k] = c /\ \A j \in 1..(k - 1) : s[j] # c
       IN <<SubSeq(s, 1, i - 1)>> \o Split(SubSeq(s, i + 1, Len(s)), c)

AllDigits(s) == \A i \in 1..Len(s) : IsDigit(s[i])

\* value of a run of digits
RECURSIVE DigitsVal(_)
DigitsVal(s) ==
  IF s = <<>> THEN 0 ELSE 10 * DigitsVal(SubSeq(s, 1, Len(s) - 1)) + DigitVal(s[Len(s)])

\* the fraction digits of a decimal literal, in thousandths
FracVal(s) ==
  LET d(i) == IF i <= Len(s) THEN DigitVal(s[i]) ELSE 0
  IN (100 * d(1) + 10 * d(2) + d(3)) * (Scale \div 1000)

(***************************************************************************)
(* Number(text): the StrNumericLiteral grammar restricted to the alphabet  *)
(* of the model (digits, ".", sign, space): surrounding white space is     *)
(* dropped, the empty text is 0, "d+", "d+.", "d+.d+", ".d+" with an       *)
(* optional sign are numbers, every other text is NaN.                     *)
(***************************************************************************)
\* the pieces of a decimal literal around its "."
Decimal(p) ==
  IF Len(p) # 2 \/ ~AllDigits(p[1]) \/ ~AllDigits(p[2]) \/ (p[1] = <<>> /\ p[2] = <<>>)
  THEN NaN
  ELSE DigitsVal(p[1]) * Scale + FracVal(p[2])

UnsignedNumber(t) ==
  IF t = <<>> THEN NaN
  ELSE IF ~Includes(t, ".") THEN (IF AllDigits(t) THEN DigitsVal(t) * Scale ELSE NaN)
  ELSE Decimal(Split(t, "."))

\* the value of a literal with its sign
Signed(neg, u) == IF neg /\ IsFinite(u) THEN -u ELSE u

\* Number of a trimmed text
NumberOfTrimmed(t) ==
  IF t = <<>> THEN 0
  ELSE Signed(Head(t) = "-", UnsignedNumber(IF Head(t) \in {"-", "+"} THEN Tail(t) ELSE t))

Number(s) == NumberOfTrimmed(Trim(s))

\* n / d of two finite numbers, d # 0
Quot(n, d) == (n * Scale) \div d

(***************************************************************************)
(* Number.prototype.toString of a value with at most three decimals.       *)
(***************************************************************************)
\* decimal digits of n >= 0
RECURSIVE NatText(_)
NatText(n) ==
  IF n < 10 THEN <<Digits[n + 1]>> ELSE NatText(n \div 10) \o <<Digits[(n % 10) + 1]>>

\* the three fraction digits of m thousandths, trailing zeros dropped
FracText(m) ==
  IF m = 0 THEN <<>>
  ELSE IF m % 100 = 0 THEN <<".", Digits[(m \div 100) + 1]>>
  ELSE IF m % 10 = 0 THEN <<".", Digits[(m \div 100) + 1], Digits[((m \div 10) % 10) + 1]>>
  ELSE <<".", Digits[(m \div 100) + 1], Digits[((m \div 10) % 10) + 1], Digits[(m % 10) + 1]>>

\* fmtIn(Math.round(n * 1000) / 1000): Number.prototype.toString of a
\* value with at most three decimals
fmtIn(n) ==
  LET a == Abs(n)
      t == NatText(a \div Scale) \o FracText(a % Scale)
  IN IF n < 0 THEN <<"-">> \o t ELSE t

(***************************************************************************)
(* Math.PI, Math.sin and Math.cos.                                         *)
(***************************************************************************)
\* Math.PI as the fraction PiNum / PiDen
PiNum == 355
PiDen == 113

\* 10000 * sin(i degrees), i = 0..90, to the nearest integer
SinTable ==
  <<0, 175, 349, 523, 698, 872, 1045, 1219, 1392, 1564, 1736, 1908, 2079,
    2250, 2419, 2588, 2756, 2924, 3090, 3256, 3420, 3584, 3746, 3907, 4067, 4226,
    4384, 4540, 4695, 4848, 5000, 5150, 5299, 5446, 5592, 5736, 5878, 6018, 6157,
    6293, 6428, 6561, 6691, 6820, 6947, 7071, 7193, 7314, 7431, 7547, 7660, 7771,
    7880, 7986, 8090, 8192, 8290, 8387, 8480, 8572, 8660, 8746, 8829, 8910, 8988,
    9063, 9135, 9205, 9272, 9336, 9397, 9455, 9511, 9563, 9613, 9659, 9703, 9744,
    9781, 9816, 9848, 9877, 9903, 9925, 9945, 9962, 9976, 9986, 9994, 9998, 10000>>

\* 10000 * sin of c hundredths of a degree, 0 <= c <= 9000, interpolated
SinQuadrant(c) ==
  LET i == c \div 100
      f == c % 100
  IN IF f = 0 THEN SinTable[i + 1]
     ELSE SinTable[i + 1] + ((SinTable[i + 2] - SinTable[i + 1]) * f) \div 100

\* 10000 * Math.sin and Math.cos of an angle of c hundredths of a degree
SinC(c) ==
  LET a == c % 36000
  IN IF a <= 9000 THEN SinQuadrant(a)
     ELSE IF a <= 18000 THEN SinQuadrant(18000 - a)
     ELSE IF a <= 27000 THEN -SinQuadrant(a - 18000)
     ELSE -SinQuadrant(36000 - a)

CosC(c) == SinC(c + 9000)

\* r * s / 10000 to the nearest thousandth, s = SinC(..) or CosC(..)
TimesTrig(r, s) ==
  IF s >= 0 THEN (r * s + 5000) \div 10000 ELSE -((r * (-s) + 5000) \div 10000)

\* Math.PI * r
PiTimes(r) == (PiNum * r) \div PiDen

\* floor of the square root of n >= 0, by bisection on lo..hi
RECURSIVE SqrtIter(_, _, _)
SqrtIter(n, lo, hi) ==
  IF lo >= hi THEN lo
  ELSE LET mid == (lo + hi + 1) \div 2
       IN IF mid * mid <= n THEN SqrtIter(n, mid, hi) ELSE SqrtIter(n, lo, mid - 1)

\* Math.hypot(x, y), rounded to the nearest thousandth (exact when x or y is 0
\* and on Pythagorean triples)
Hypot(x, y) ==
  LET n == x * x + y * y
      s == SqrtIter(n, 0, Abs(x) + Abs(y))
  IN IF n - s * s > s THEN s + 1 ELSE s

\* the largest angle a in lo..hi, in hundredths of a degree, whose cosine is
\* at least num / den (the cosine falls from 0 to 180 degrees)
RECURSIVE AcosIter(_, _, _, _)
AcosIter(num, den, lo, hi) ==
  IF lo >= hi THEN lo
  ELSE LET mid == (lo + hi + 1) \div 2
       IN IF CosC(mid) * den >= 10000 * num THEN AcosIter(num, den, mid, hi)
          ELSE AcosIter(num, den, lo, mid - 1)

\* Math.acos(num / den) in hundredths of a degree, den > 0, |num| <= den
AcosC(num, den) == AcosIter(num, den, 0, 18000)

\* Math.atan2(y, x) in hundredths of a degree, in -18000..18000
Atan2C(y, x) ==
  IF x = 0 /\ y = 0 THEN 0
  ELSE IF y >= 0 THEN AcosC(x, Hypot(x, y)) ELSE -AcosC(x, Hypot(x, y))

(***************************************************************************)
(* DXF (R12) of ellipse.js, flange.js and jumper.js (identical bodies).    *)
(* A text is the sequence of its pieces: a piece is a string without a     *)
(* line break, or the line break "\n" itself.                              *)
(***************************************************************************)
\* the characters of a text as one string
RECURSIVE Concat(_)
Concat(s) == IF s = <<>> THEN "" ELSE Head(s) \o Concat(Tail(s))

\* String(x) of a number: Number.prototype.toString, as in fmtIn
String(x) == IF ~IsFinite(x) THEN "NaN" ELSE Concat(fmtIn(x))

(***************************************************************************)
(* Numbers with seven decimals.  The coordinates the serializers receive   *)
(* are doubles; to follow their digits past the thousandth a value is also *)
(* taken as a whole number of ten-millionths of an inch.                   *)
(***************************************************************************)
\* ten-millionths in an inch
FineScale == Scale * 10000

\* 10 ^ k
RECURSIVE PowerOfTen(_)
PowerOfTen(k) == IF k = 0 THEN 1 ELSE 10 * PowerOfTen(k - 1)

\* the digits of f as a fraction of width digits, trailing zeros dropped
RECURSIVE FracDigits(_, _)
FracDigits(f, width) ==
  IF f = 0 THEN <<>>
  ELSE <<Digits[(f \div PowerOfTen(width - 1)) + 1]>>
       \o FracDigits(f % PowerOfTen(width - 1), width - 1)

\* Number.prototype.toString of m / 10 ^ width, for |m / 10 ^ width| >= 1e-6
\* or m = 0: the decimal digits, no trailing zeros
DecimalText(m, width) ==
  LET a == Abs(m)
      whole == NatText(a \div PowerOfTen(width))
      frac == FracDigits(a % PowerOfTen(width), width)
      t == IF frac = <<>> THEN whole ELSE whole \o <<".">> \o frac
  IN Concat(IF m < 0 THEN <<"-">> \o t ELSE t)

\* String(x) of a double of v ten-millionths: every digit of the value;
\* below 1e-6 Number.prototype.toString writes the exponent form
StringFine(v) ==
  IF v # 0 /\ Abs(v) < 10
  THEN Concat((IF v < 0 THEN <<"-">> ELSE <<>>) \o <<Digits[Abs(v) + 1], "e", "-", "7">>)
  ELSE DecimalText(v, 7)

\* Array.prototype.join("\n")
Join(items) ==
  [i \in 1..(2 * Len(items) - 1) |-> IF i % 2 = 1 THEN items[(i + 1) \div 2] ELSE "\n"]

dxfHeader ==
  Join(<<"0", "SECTION", "2", "HEADER",
         "9", "$ACADVER", "1", "AC1009",
         "9", "$INSUNITS", "70", "1",
         "0", "ENDSEC",
         "0", "SECTION", "2", "TABLES",
         "0", "TABLE", "2", "LAYER", "70", "2",
         "0", "LAYER", "2", "Perimeter", "70", "0", "62", "7", "6", "CONTINUOUS",
         "0", "LAYER", "2", "Holes", "70", "0", "62", "7", "6", "CONTINUOUS",
         "0", "ENDTAB",
         "0", "ENDSEC",
         "0", "SECTION", "2", "ENTITIES">>) \o <<"\n">>

dxfFooter == Join(<<"0", "ENDSEC", "0", "EOF">>)

\* faulty variant of dxfCircle: group 40 carries the diameter
dxfCircleDiameter(x, y, r, layer) ==
  Join(<<"0", "CIRCLE", "8", layer, "10", String(x), "20", String(y), "30", "0",
         "40", String(2 * r)>>) \o <<"\n">>

dxfCircle(x, y, r, layer) ==
  Join(<<"0", "CIRCLE", "8", layer, "10", String(x), "20", String(y), "30", "0",
         "40", String(r)>>) \o <<"\n">>

\* the k-th of the ten items pushed for the vertex p
VertexItem(p, layer, k) ==
  CASE k = 1 -> "0" [] k = 2 -> "VERTEX" [] k = 3 -> "8" [] k = 4 -> layer
    [] k = 5 -> "10" [] k = 6 -> String(p[1]) [] k = 7 -> "20" [] k = 8 -> String(p[2])
    [] k = 9 -> "30" [] k = 10 -> "0"

\* the items pushed by the loop over the points
VertexItems(points, layer) ==
  [i \in 1..(10 * Len(points)) |->
     VertexItem(points[((i - 1) \div 10) + 1], layer, ((i - 1) % 10) + 1)]

dxfPolyline(points, layer, closed) ==
  Join(<<"0", "POLYLINE", "8", layer, "66", "1", "70", IF closed THEN "1" ELSE "0",
         "10", "0", "20", "0", "30", "0">>
       \o VertexItems(points, layer)
       \o <<"0", "SEQEND">>) \o <<"\n">>

(***************************************************************************)
(* parseInches of ellipse.js, flange.js and jumper.js (identical bodies).  *)
(***************************************************************************)
\* n / d, NaN unless both are finite and d is not 0
Ratio(n, d) == IF ~IsFinite(n) \/ ~IsFinite(d) \/ d = 0 THEN NaN ELSE Quot(n, d)

\* the value of the pieces of "n/d": const [n, d] = ....split("/").map(Number)
Fraction(nd) == Ratio(Number(nd[1]), Number(nd[2]))

\* whole + n / d of "a b/c"
Mixed(whole, frac) == IF ~IsFinite(whole) \/ ~IsFinite(frac) THEN NaN ELSE whole + frac

\* the three shapes of the normalised text s, parts = s.split(" ")
ParseParts(s, parts) ==
  IF Len(parts) = 2 /\ Includes(parts[2], "/")
  THEN Mixed(Number(parts[1]), Fraction(Split(parts[2], "/")))
  ELSE IF Len(parts) = 1 /\ Includes(s, "/") THEN Fraction(Split(s, "/"))
  ELSE Number(s)

\* the text after trim and the two replace calls
ParseNormalised(s) == ParseParts(s, Split(s, " "))

\* faulty variant of parseInches: the hyphens are left in the text
parseInchesSigned(str) ==
  IF Trim(str) = <<>> THEN NaN
  ELSE ParseNormalised(CollapseSpaces(Trim(str)))

parseInches(str) ==
  IF Trim(str) = <<>> THEN NaN
  ELSE ParseNormalised(CollapseSpaces(ReplaceHyphens(Trim(str))))

(***************************************************************************)
(* State of one generator page.                                            *)
(***************************************************************************)
VARIABLES
  gen,             \* which page is open: "ellipse", "flange", "jumper" or "firetube"
  fields,          \* text of every dimension input of the page
  sel,             \* value of the page's <select> (flange cutoutType, firetube centerMode)
  filename,        \* text of the CAD-name input
  lastValid,       \* the closure variable lastValid (ellipse, flange, jumper)
  downloadEnabled, \* ~downloadBtn.disabled
  status,          \* kind of text shown in the status element
  report,          \* error messages listed by the last validation pass
  warns,           \* warning messages listed by the last validation pass (firetube)
  lastOp,          \* the handler that ran last
  ran,             \* helper functions the last handler called
  exported,        \* what the last handler passed to downloadTextFile, or Null
  call             \* a function applied on its own: its name, arguments and result

vars == <<gen, fields, sel, filename, lastValid, downloadEnabled, status, report,
          warns, lastOp, ran, exported, call>>

\* JavaScript null
Null == [null |-> TRUE]

\* errors.push(msg) under a condition
Err(cond, msg) == IF cond THEN <<msg>> ELSE <<>>

\* filenameEl.value.trim().length > 0
HasName(name) == Trim(name) # <<>>

\* longest CAD name typed
MaxNameLen == 1

\* texts typed into the CAD-name input: blank, white space only, or a name
NameTexts == {<<>>, <<" ">>} \cup {[i \in 1..n |-> "a"] : n \in 1..MaxNameLen}

(***************************************************************************)
(* ellipse.js                                                              *)
(***************************************************************************)
EllipseFields == {"idLong", "idShort", "cs"}

EllipseTexts ==
  {<<>>, <<"x">>, <<"0">>, <<"1", "/", "2">>, <<"2">>, <<"4">>, <<"-", "4">>,
   <<"-">>, <<"1", "/", "0">>}

\* faulty variant of EllipseErrors: the two sides are not compared
EllipseErrorsNoOrder(idL, idS, cs) ==
     Err(~IsFinite(idL) \/ idL <= 0, "Long Side ID must be a positive number.")
  \o Err(~IsFinite(idS) \/ idS <= 0, "Short Side ID must be a positive number.")
  \o Err(~IsFinite(cs) \/ cs <= 0, "Cross Section must be a positive number.")

\* the checks of validateAndPreview, in order
EllipseErrors(idL, idS, cs) ==
     Err(~IsFinite(idL) \/ idL <= 0, "Long Side ID must be a positive number.")
  \o Err(~IsFinite(idS) \/ idS <= 0, "Short Side ID must be a positive number.")
  \o Err(~IsFinite(cs) \/ cs <= 0, "Cross Section must be a positive number.")
  \o Err(IsFinite(idL) /\ IsFinite(idS) /\ idS > idL,
         "Short Side ID cannot be larger than Long Side ID.")

\* the spec validateAndPreview stores in lastValid
EllipseSpec(idL, idS, cs) ==
  [idL |-> idL, idS |-> idS, cs |-> cs, odL |-> idL + 2 * cs, odS |-> idS + 2 * cs]

\* validateAndPreview once the three fields are parsed
EllipseOutcome(idL, idS, cs) ==
  [errors |-> EllipseErrors(idL, idS, cs),
   spec |-> IF EllipseErrors(idL, idS, cs) # <<>> THEN Null ELSE EllipseSpec(idL, idS, cs)]

\* validateAndPreview on the given field texts: the errors and the new lastValid
EllipseValidation(f) ==
  EllipseOutcome(parseInches(f["idLong"]), parseInches(f["idShort"]), parseInches(f["cs"]))

\* click on validateBtn
EllipseValidate ==
  /\ gen = "ellipse"
  /\ \E v \in {EllipseValidation(fields)} :
        /\ lastValid' = v.spec
        /\ report' = v.errors
        /\ status' = IF v.errors # <<>> THEN "ERRORS" ELSE "OK"
        /\ downloadEnabled' = IF v.errors # <<>> THEN FALSE ELSE HasName(filename)
  /\ lastOp' = "validate"
  /\ ran' = {}
  /\ exported' = Null
  /\ warns' = <<>>
  /\ UNCHANGED <<call, gen, fields, sel, filename>>

\* faulty variant of EllipseInput: the listener forgets to reset lastValid
EllipseInputStale ==
  /\ gen = "ellipse"
  /\ \E f \in EllipseFields, t \in EllipseTexts : fields' = [fields EXCEPT ![f] = t]
  /\ status' = "Ready."
  /\ report' = <<>>
  /\ warns' = <<>>
  /\ lastOp' = "input"
  /\ ran' = {}
  /\ exported' = Null
  /\ UNCHANGED <<call, gen, sel, filename, lastValid, downloadEnabled>>

\* "input" listener of idLong, idShort and cs
EllipseInput ==
  /\ gen = "ellipse"
  /\ \E f \in EllipseFields, t \in EllipseTexts : fields' = [fields EXCEPT ![f] = t]
  /\ lastValid' = Null
  /\ status' = "Ready."
  /\ downloadEnabled' = FALSE
  /\ report' = <<>>
  /\ warns' = <<>>
  /\ lastOp' = "input"
  /\ ran' = {}
  /\ exported' = Null
  /\ UNCHANGED <<call, gen, sel, filename>>

\* faulty variant of EllipseFilename: the button follows the name alone
EllipseFilenameNameOnly ==
  /\ gen = "ellipse"
  /\ \E t \in NameTexts : filename' = t
  /\ downloadEnabled' = HasName(filename')
  /\ lastOp' = "filename"
  /\ ran' = {}
  /\ exported' = Null
  /\ UNCHANGED <<call, gen, fields, sel, lastValid, status, report, warns>>

\* "input" listener of the CAD-name field
EllipseFilename ==
  /\ gen = "ellipse"
  /\ \E t \in NameTexts : filename' = t
  /\ downloadEnabled' = (lastValid # Null /\ HasName(filename'))
  /\ lastOp' = "filename"
  /\ ran' = {}
  /\ exported' = Null
  /\ UNCHANGED <<call, gen, fields, sel, lastValid, status, report, warns>>

\* downloadDXF calls ellipsePoints with 280 segments
EllipseSegments == 280

\* ellipsePoints: the points at the angles 360 * i / segments degrees
ellipsePoints(longDia, shortDia, segments) ==
  [i \in 1..segments |->
     <<TimesTrig(longDia \div 2, CosC((36000 * (i - 1)) \div segments)),
       TimesTrig(shortDia \div 2, SinC((36000 * (i - 1)) \div segments))>>]

\* faulty variant of EllipseDXF: the ID outline is written on layer Perimeter
EllipseDXFOneLayer(v) ==
     dxfHeader
  \o dxfPolyline(ellipsePoints(v.odL, v.odS, EllipseSegments), "Perimeter", TRUE)
  \o dxfPolyline(ellipsePoints(v.idL, v.idS, EllipseSegments), "Perimeter", TRUE)
  \o dxfFooter

\* the text downloadDXF builds from lastValid
EllipseDXF(v) ==
     dxfHeader
  \o dxfPolyline(ellipsePoints(v.odL, v.odS, EllipseSegments), "Perimeter", TRUE)
  \o dxfPolyline(ellipsePoints(v.idL, v.idS, EllipseSegments), "Holes", TRUE)
  \o dxfFooter

\* faulty variant of EllipseDownload: the spec is dropped once it is exported
EllipseDownloadOnce ==
  /\ gen = "ellipse"
  /\ lastOp' = "download"
  /\ ran' = {}
  /\ report' = <<>>
  /\ IF ~HasName(filename)
     THEN /\ status' = "Enter CAD Name above, then download."
          /\ downloadEnabled' = FALSE
          /\ exported' = Null
          /\ UNCHANGED lastValid
     ELSE IF lastValid = Null
     THEN /\ status' = "Click Validate & Preview first, then download."
          /\ exported' = Null
          /\ UNCHANGED <<downloadEnabled, lastValid>>
     ELSE /\ exported' = [name |-> Trim(filename), spec |-> lastValid,
                          dxf |-> EllipseDXF(lastValid)]
          /\ status' = "DXF downloaded."
          /\ lastValid' = Null
          /\ downloadEnabled' = FALSE
  /\ UNCHANGED <<call, gen, fields, sel, filename, warns>>

\* click on downloadBtn: downloadDXF
EllipseDownload ==
  /\ gen = "ellipse"
  /\ lastOp' = "download"
  /\ ran' = {}
  /\ IF ~HasName(filename)
     THEN /\ status' = "Enter CAD Name above, then download."
          /\ downloadEnabled' = FALSE
          /\ exported' = Null
          /\ report' = <<>>
     ELSE IF lastValid = Null
     THEN /\ status' = "Click Validate & Preview first, then download."
          /\ exported' = Null
          /\ report' = <<>>
          /\ UNCHANGED downloadEnabled
     ELSE /\ exported' = [name |-> Trim(filename), spec |-> lastValid,
                          dxf |-> EllipseDXF(lastValid)]
          /\ status' = "DXF downloaded."
          /\ report' = <<>>
          /\ UNCHANGED downloadEnabled
  /\ UNCHANGED <<call, gen, fields, sel, filename, lastValid, warns>>

(***************************************************************************)
(* jumper.js                                                               *)
(***************************************************************************)
JumperFields == {"idDia", "boltDia", "cc", "boltEdgeToOD", "idEdgeToOD"}

JumperTexts(f) ==
  CASE f = "idDia" -> {<<>>, <<"0">>, <<"1">>, <<"3">>}
    [] f = "boltDia" -> {<<"x">>, <<"1">>}
    [] f = "cc" -> {<<"0">>, <<"1">>, <<"4">>}
    [] f = "boltEdgeToOD" -> {<<"0">>, <<"1", "/", "2">>, <<"2">>, <<"3">>}
    [] f = "idEdgeToOD" -> {<<>>, <<"0">>, <<"1", "/", "2">>, <<"-">>, <<"-", "1", "/", "2">>}

ContainedMsg ==
  "OD offsets create a contained-circle condition - cannot form straight tangent lines. Adjust OD offsets or spacing."

\* first block of checks of validateAndPreview: every field is a number in range
JumperFieldErrors(idDia, boltDia, cc, boltEdgeToOD, idEdgeToOD) ==
     Err(~IsFinite(idDia) \/ idDia <= 0, "Center ID Diameter must be a positive number.")
  \o Err(~IsFinite(boltDia) \/ boltDia <= 0, "Bolt Hole Diameter must be a positive number.")
  \o Err(~IsFinite(cc) \/ cc <= 0, "Bolt Hole Center To Center must be a positive number.")
  \o Err(~IsFinite(boltEdgeToOD) \/ boltEdgeToOD < 0,
         "Bolt Hole Edge To OD must be zero or a positive number.")
  \o Err(~IsFinite(idEdgeToOD) \/ idEdgeToOD < 0,
         "ID Edge To OD must be zero or a positive number.")

\* second block: hard collisions of the holes
JumperCollisionErrors(idDia, boltDia, cc) ==
     Err(cc <= boltDia, "Bolt holes are touching/overlapping each other.")
  \o Err(cc \div 2 <= boltDia \div 2 + idDia \div 2,
         "Bolt holes are touching/overlapping the center ID hole.")

\* externalTangents returns a result (not null) for two circles on the x axis:
\* d = hypot(dx, 0) > 0 and |(r1 - r2) / d| <= 1
TangentsExist(c1x, r1, c2x, r2) ==
  LET d == Abs(c2x - c1x)
  IN d > 0 /\ Abs(r1 - r2) <= d

\* buildOD: an error when a tangent pair is missing, else the outline
buildOD(cc, RboltOuter, RidOuter) ==
  IF ~TangentsExist(-(cc \div 2), RboltOuter, 0, RidOuter)
  THEN [error |-> "Cannot compute tangents between left bolt OD and center OD."]
  ELSE IF ~TangentsExist(0, RidOuter, cc \div 2, RboltOuter)
  THEN [error |-> "Cannot compute tangents between center OD and right bolt OD."]
  ELSE [error |-> ""]

\* faulty variant of Contained: internally tangent outer circles pass
ContainedStrictly(cc, RboltOuter, RidOuter) == cc \div 2 < Abs(RboltOuter - RidOuter)

\* "d <= Math.abs(RboltOuter - RidOuter)": one outer circle contains the other
Contained(cc, RboltOuter, RidOuter) == cc \div 2 <= Abs(RboltOuter - RidOuter)

\* faulty variant of JumperSpec: the edge clearance is taken off the hole radius
JumperSpecInward(idDia, boltDia, cc, boltEdgeToOD, idEdgeToOD) ==
  [idDia |-> idDia, boltDia |-> boltDia, cc |-> cc,
   boltEdgeToOD |-> boltEdgeToOD, idEdgeToOD |-> idEdgeToOD,
   idR |-> idDia \div 2, boltR |-> boltDia \div 2,
   RboltOuter |-> boltDia \div 2 - boltEdgeToOD,
   RidOuter |-> idDia \div 2 - idEdgeToOD]

\* the spec validateAndPreview stores in lastValid
JumperSpec(idDia, boltDia, cc, boltEdgeToOD, idEdgeToOD) ==
  [idDia |-> idDia, boltDia |-> boltDia, cc |-> cc,
   boltEdgeToOD |-> boltEdgeToOD, idEdgeToOD |-> idEdgeToOD,
   idR |-> idDia \div 2, boltR |-> boltDia \div 2,
   RboltOuter |-> boltDia \div 2 + boltEdgeToOD,
   RidOuter |-> idDia \div 2 + idEdgeToOD]

\* validateAndPreview once the five fields are parsed
JumperOutcome(idDia, boltDia, cc, boltEdgeToOD, idEdgeToOD) ==
  LET e1 == JumperFieldErrors(idDia, boltDia, cc, boltEdgeToOD, idEdgeToOD)
      e2 == JumperCollisionErrors(idDia, boltDia, cc)
      RboltOuter == boltDia \div 2 + boltEdgeToOD
      RidOuter == idDia \div 2 + idEdgeToOD
      built == buildOD(cc, RboltOuter, RidOuter)
  IN IF e1 # <<>> THEN [errors |-> e1, spec |-> Null, ran |-> {}]
     ELSE IF e2 # <<>> THEN [errors |-> e2, spec |-> Null, ran |-> {}]
     ELSE IF Contained(cc, RboltOuter, RidOuter)
          THEN [errors |-> <<ContainedMsg>>, spec |-> Null, ran |-> {}]
     ELSE IF built.error # ""
          THEN [errors |-> <<built.error>>, spec |-> Null, ran |-> {"buildOD"}]
     ELSE [errors |-> <<>>,
           spec |-> JumperSpec(idDia, boltDia, cc, boltEdgeToOD, idEdgeToOD),
           ran |-> {"buildOD"}]

\* validateAndPreview on the given field texts: the errors, the new
\* lastValid and the helpers that ran
JumperValidation(f) ==
  JumperOutcome(parseInches(f["idDia"]), parseInches(f["boltDia"]), parseInches(f["cc"]),
                parseInches(f["boltEdgeToOD"]), parseInches(f["idEdgeToOD"]))

\* click on validateBtn
JumperValidate ==
  /\ gen = "jumper"
  /\ \E v \in {JumperValidation(fields)} :
        /\ lastValid' = v.spec
        /\ report' = v.errors
        /\ ran' = v.ran
        /\ status' = IF v.errors # <<>> THEN "ERRORS" ELSE "OK"
        /\ downloadEnabled' = IF v.errors # <<>> THEN FALSE ELSE HasName(filename)
  /\ lastOp' = "validate"
  /\ exported' = Null
  /\ warns' = <<>>
  /\ UNCHANGED <<call, gen, fields, sel, filename>>

\* "input" listener of the five dimension fields
JumperInput ==
  /\ gen = "jumper"
  /\ \E f \in JumperFields : \E t \in JumperTexts(f) : fields' = [fields EXCEPT ![f] = t]
  /\ lastValid' = Null
  /\ status' = "Ready."
  /\ downloadEnabled' = FALSE
  /\ report' = <<>>
  /\ warns' = <<>>
  /\ lastOp' = "input"
  /\ ran' = {}
  /\ exported' = Null
  /\ UNCHANGED <<call, gen, sel, filename>>

\* "input" listener of the CAD-name field
JumperFilename ==
  /\ gen = "jumper"
  /\ \E t \in NameTexts : filename' = t
  /\ downloadEnabled' = (lastValid # Null /\ HasName(filename'))
  /\ lastOp' = "filename"
  /\ ran' = {}
  /\ exported' = Null
  /\ UNCHANGED <<call, gen, fields, sel, lastValid, status, report, warns>>

(***************************************************************************)
(* jumper.js: the OD outline.  Angles are in hundredths of a degree.       *)
(***************************************************************************)
\* [cx + r * Math.cos(a), cy + r * Math.sin(a)]
PointAt(cx, cy, r, a) == <<cx + TimesTrig(r, CosC(a)), cy + TimesTrig(r, SinC(a))>>

angleOf(cx, cy, px, py) == Atan2C(py - cy, px - cx)

\* arcPoints with maxSegLen = 0.06: Math.max(10, Math.ceil(sweep * r / 0.06)),
\* the sweep in hundredths of a degree and r in thousandths
ArcSegments(sweep, r) == Max(10, (sweep * PiTimes(r) + (18000 * 60 - 1)) \div (18000 * 60))

\* the n + 1 points from angle start over the signed sweep
ArcSamples(cx, cy, r, start, sweep, n) ==
  [i \in 1..(n + 1) |-> PointAt(cx, cy, r, start + (sweep * (i - 1)) \div n)]

\* arcPoints: "while (end <= start) end += 2 pi" counter-clockwise,
\* "while (end >= start) end -= 2 pi" clockwise; a0 and a1 come from atan2
arcPoints(cx, cy, r, a0, a1, ccw) ==
  IF ccw
  THEN ArcSamples(cx, cy, r, a0, (IF a1 <= a0 THEN a1 + 36000 ELSE a1) - a0,
                  ArcSegments((IF a1 <= a0 THEN a1 + 36000 ELSE a1) - a0, r))
  ELSE ArcSamples(cx, cy, r, a0, -(a0 - (IF a1 >= a0 THEN a1 - 36000 ELSE a1)),
                  ArcSegments(a0 - (IF a1 >= a0 THEN a1 - 36000 ELSE a1), r))

\* the wantFn arguments of buildOD: (_x, y) => y > 0, (_x, y) => y < 0,
\* (x, _y) => x < L.x, (x, _y) => x > R.x
Want(side, ref, p) ==
  CASE side = "above" -> p[2] > 0
    [] side = "below" -> p[2] < 0
    [] side = "left" -> p[1] < ref
    [] side = "right" -> p[1] > ref

\* the choice of chosenArc between its two candidates
PickArc(arcCCW, arcCW, okCCW, okCW) ==
  IF okCCW /\ ~okCW THEN arcCCW
  ELSE IF okCW /\ ~okCCW THEN arcCW
  ELSE IF Len(arcCCW) <= Len(arcCW) THEN arcCCW ELSE arcCW

\* chosenArc once the two candidates are built: the outside test is made
\* on arc[Math.floor(arc.length / 2)]
ChooseOutside(arcCCW, arcCW, side, ref) ==
  PickArc(arcCCW, arcCW, Want(side, ref, arcCCW[(Len(arcCCW) \div 2) + 1]),
          Want(side, ref, arcCW[(Len(arcCW) \div 2) + 1]))

\* chosenArc once the two end angles are known
ArcBetween(cx, cy, r, a0, a1, side, ref) ==
  ChooseOutside(arcPoints(cx, cy, r, a0, a1, TRUE), arcPoints(cx, cy, r, a0, a1, FALSE),
                side, ref)

chosenArc(cx, cy, r, pStart, pEnd, side, ref) ==
  ArcBetween(cx, cy, r, angleOf(cx, cy, pStart[1], pStart[2]),
             angleOf(cx, cy, pEnd[1], pEnd[2]), side, ref)

\* the two tangent lines of externalTangents, labelled top / bottom by y
TangentPair(p1A, p2A, p1B, p2B) ==
  IF p1A[2] >= p1B[2]
  THEN [top |-> [p1 |-> p1A, p2 |-> p2A], bottom |-> [p1 |-> p1B, p2 |-> p2B]]
  ELSE [top |-> [p1 |-> p1B, p2 |-> p2B], bottom |-> [p1 |-> p1A, p2 |-> p2A]]

\* externalTangents once base = atan2(dy, dx) and phi = acos(k) are known
TangentsAt(c1x, c1y, r1, c2x, c2y, r2, base, phi) ==
  TangentPair(PointAt(c1x, c1y, r1, base + phi), PointAt(c2x, c2y, r2, base + phi),
              PointAt(c1x, c1y, r1, base - phi), PointAt(c2x, c2y, r2, base - phi))

externalTangents(c1x, c1y, r1, c2x, c2y, r2) ==
  IF ~(Hypot(c2x - c1x, c2y - c1y) > 0) THEN Null
  ELSE IF Abs(r1 - r2) > Hypot(c2x - c1x, c2y - c1y) THEN Null
  ELSE TangentsAt(c1x, c1y, r1, c2x, c2y, r2, Atan2C(c2y - c1y, c2x - c1x),
                  AcosC(r1 - r2, Hypot(c2x - c1x, c2y - c1y)))

\* faulty variant of Outline: the bottom arc of the centre circle is left out
OutlineNoBottomArc(cc, RboltOuter, RidOuter, tLC, tCR) ==
     <<tLC.top.p1, tLC.top.p2>>
  \o Tail(chosenArc(0, 0, RidOuter, tLC.top.p2, tCR.top.p1, "above", 0))
  \o <<tCR.top.p2>>
  \o Tail(chosenArc(cc \div 2, 0, RboltOuter, tCR.top.p2, tCR.bottom.p2, "right", cc \div 2))
  \o <<tCR.bottom.p1>>
  \o <<tLC.bottom.p1>>
  \o Tail(chosenArc(-(cc \div 2), 0, RboltOuter, tLC.bottom.p1, tLC.top.p1, "left", -(cc \div 2)))

\* the perimeter buildOD assembles from the two tangent pairs
Outline(cc, RboltOuter, RidOuter, tLC, tCR) ==
     <<tLC.top.p1, tLC.top.p2>>
  \o Tail(chosenArc(0, 0, RidOuter, tLC.top.p2, tCR.top.p1, "above", 0))
  \o <<tCR.top.p2>>
  \o Tail(chosenArc(cc \div 2, 0, RboltOuter, tCR.top.p2, tCR.bottom.p2, "right", cc \div 2))
  \o <<tCR.bottom.p1>>
  \o Tail(chosenArc(0, 0, RidOuter, tCR.bottom.p1, tLC.bottom.p2, "below", 0))
  \o <<tLC.bottom.p1>>
  \o Tail(chosenArc(-(cc \div 2), 0, RboltOuter, tLC.bottom.p1, tLC.top.p1, "left", -(cc \div 2)))

\* built.pts of buildOD when it reports no error: the odPts of lastValid
buildODPoints(cc, RboltOuter, RidOuter) ==
  Outline(cc, RboltOuter, RidOuter,
          externalTangents(-(cc \div 2), 0, RboltOuter, 0, 0, RidOuter),
          externalTangents(0, 0, RidOuter, cc \div 2, 0, RboltOuter))

\* the text downloadDXF builds from lastValid; v.odPts is the outline buildOD
\* returned for v.cc, v.RboltOuter and v.RidOuter
JumperDXF(v) ==
     dxfHeader
  \o dxfPolyline(buildODPoints(v.cc, v.RboltOuter, v.RidOuter), "Perimeter", TRUE)
  \o dxfCircle(0, 0, v.idR, "Holes")
  \o dxfCircle(-(v.cc \div 2), 0, v.boltR, "Holes")
  \o dxfCircle(v.cc \div 2, 0, v.boltR, "Holes")
  \o dxfFooter

\* click on downloadBtn: downloadDXF
JumperDownload ==
  /\ gen = "jumper"
  /\ lastOp' = "download"
  /\ ran' = {}
  /\ report' = <<>>
  /\ IF ~HasName(filename)
     THEN /\ status' = "Enter CAD Name above, then download."
          /\ downloadEnabled' = FALSE
          /\ exported' = Null
     ELSE IF lastValid = Null
     THEN /\ status' = "Click Validate & Preview first, then download."
          /\ exported' = Null
          /\ UNCHANGED downloadEnabled
     ELSE /\ exported' = [name |-> Trim(filename), spec |-> lastValid,
                          dxf |-> JumperDXF(lastValid)]
          /\ status' = "DXF downloaded."
          /\ UNCHANGED downloadEnabled
  /\ UNCHANGED <<call, gen, fields, sel, filename, lastValid, warns>>

(***************************************************************************)
(* flange.js                                                               *)
(***************************************************************************)
FlangeFields ==
  {"odX", "odY", "cornerR", "bhCCX", "bhCCY", "bhDia",
   "cutoutDia", "cutoutX", "cutoutY", "cutoutR"}

FlangeTexts(f) ==
  CASE f = "odX" -> {<<>>, <<"5">>}
    [] f = "odY" -> {<<"5">>}
    [] f = "cornerR" -> {<<>>, <<"1", "/", "2">>, <<"3">>}
    [] f = "bhCCX" -> {<<"3", " ", "1", "/", "2">>, <<"4">>}
    [] f = "bhCCY" -> {<<"1", "/", "2">>, <<"3">>, <<"3", " ", "1", "/", "2">>}
    [] f = "bhDia" -> {<<"1", "/", "2">>, <<"1">>}
    [] f = "cutoutDia" -> {<<"3">>, <<"4", "-", "1", "/", "2">>}
    [] f = "cutoutX" -> {<<"3">>}
    [] f = "cutoutY" -> {<<"3">>, <<"5">>}
    [] f = "cutoutR" -> {<<>>, <<"1", "/", "2">>, <<"2">>}

\* the form as loaded
FlangeInitFields ==
  [odX |-> <<>>, odY |-> <<"5">>, cornerR |-> <<>>,
   bhCCX |-> <<"3", " ", "1", "/", "2">>, bhCCY |-> <<"3", " ", "1", "/", "2">>,
   bhDia |-> <<"1", "/", "2">>, cutoutDia |-> <<"3">>,
   cutoutX |-> <<"3">>, cutoutY |-> <<"3">>, cutoutR |-> <<>>]

CutoutTypes == {"circle", "square"}

clampRadius(r, w, h) ==
  LET hw == w \div 2
      hh == h \div 2
  IN IF ~IsFinite(r) \/ r <= 0 THEN 0 ELSE Max(0, Min(r, Min(hw, hh)))

\* faulty variant of sdfRoundedRect: the term for points inside is left out
sdfRoundedRectNoInside(px, py, hw, hh, rr) ==
  LET qx == Abs(px) - (hw - rr)
      qy == Abs(py) - (hh - rr)
      mx == Max(qx, 0)
      my == Max(qy, 0)
  IN Hypot(mx, my) - rr

\* signed distance of (px, py) to the rounded rectangle: negative inside
sdfRoundedRect(px, py, hw, hh, rr) ==
  LET qx == Abs(px) - (hw - rr)
      qy == Abs(py) - (hh - rr)
      mx == Max(qx, 0)
      my == Max(qy, 0)
  IN Hypot(mx, my) + Min(Max(qx, qy), 0) - rr

gapCircleToRoundedOD(x, y, r, odX, odY, odR) ==
  (-sdfRoundedRect(x, y, odX \div 2, odY \div 2, clampRadius(odR, odX, odY))) - r

gapCircleToCenterCutoutRoundedRect(x, y, r, cutX, cutY, cutR) ==
  sdfRoundedRect(x, y, cutX \div 2, cutY \div 2, clampRadius(cutR, cutX, cutY)) - r

\* roundedRectPoints is called with 24 segments per corner
SegmentsPerCorner == 24

\* 1000 * cos(i * 90 / 24 degrees), i = 0..24, to the nearest integer
CosTable ==
  <<1000, 998, 991, 981, 966, 947, 924, 897, 866, 831, 793, 752, 707, 659, 609,
    556, 500, 442, 383, 321, 259, 195, 131, 65, 0>>

\* rr * cos and rr * sin of the i-th sample angle of a corner, in thousandths
CornerCos(rr, i) == (rr * CosTable[i + 1] + 500) \div 1000
CornerSin(rr, i) == (rr * CosTable[SegmentsPerCorner - i + 1] + 500) \div 1000

\* the boundary points roundedRectPoints(w, h, r, 24) returns
roundedRectPoints(w, h, r) ==
  LET hw == w \div 2
      hh == h \div 2
      rr == clampRadius(r, w, h)
      n == SegmentsPerCorner + 1
      \* arc(hw - rr, -hh + rr, -90, 0)
      arc1 == [i \in 1..n |-> <<(hw - rr) + CornerSin(rr, i - 1), (-hh + rr) - CornerCos(rr, i - 1)>>]
      \* arc(hw - rr, hh - rr, 0, 90)
      arc2 == [i \in 1..n |-> <<(hw - rr) + CornerCos(rr, i - 1), (hh - rr) + CornerSin(rr, i - 1)>>]
      \* arc(-hw + rr, hh - rr, 90, 180)
      arc3 == [i \in 1..n |-> <<(-hw + rr) - CornerSin(rr, i - 1), (hh - rr) + CornerCos(rr, i - 1)>>]
      \* arc(-hw + rr, -hh + rr, 180, 270)
      arc4 == [i \in 1..n |-> <<(-hw + rr) - CornerCos(rr, i - 1), (-hh + rr) - CornerSin(rr, i - 1)>>]
  IN IF rr = 0
     THEN << <<-hw, -hh>>, <<hw, -hh>>, <<hw, hh>>, <<-hw, hh>> >>
     ELSE arc1 \o arc2 \o arc3 \o arc4

\* Math.min over a non-empty set of gaps
MinOver(gaps) == CHOOSE m \in gaps : \A k \in gaps : m <= k

\* the elements of a sequence
Range(seq) == {seq[i] : i \in 1..Len(seq)}

\* the four bolt-hole centres
FlangeHoleCenters(bhCCX, bhCCY) ==
  LET hx == bhCCX \div 2
      hy == bhCCY \div 2
  IN << <<-hx, -hy>>, <<hx, -hy>>, <<-hx, hy>>, <<hx, hy>> >>

\* 1) smallest gap of a bolt hole to the OD
FlangeHoleODGap(v) ==
  LET g(p) == gapCircleToRoundedOD(p[1], p[2], v.bhDia \div 2, v.odX, v.odY, v.cornerR)
  IN MinOver({g(p) : p \in Range(FlangeHoleCenters(v.bhCCX, v.bhCCY))})

\* 3) gap of the centre cutout to the OD
FlangeCutoutODGap(v) ==
  IF v.cutoutType = "circle"
  THEN gapCircleToRoundedOD(0, 0, v.cutoutDia \div 2, v.odX, v.odY, v.cornerR)
  ELSE LET g(p) == gapCircleToRoundedOD(p[1], p[2], 0, v.odX, v.odY, v.cornerR)
       IN MinOver({g(p) : p \in Range(roundedRectPoints(v.cutoutX, v.cutoutY, v.cutoutR))})

\* 4) smallest gap of a bolt hole to the centre cutout
FlangeHoleCutoutGap(v) ==
  IF v.cutoutType = "circle"
  THEN LET g(p) == Hypot(p[1], p[2]) - (v.bhDia \div 2 + v.cutoutDia \div 2)
       IN MinOver({g(p) : p \in Range(FlangeHoleCenters(v.bhCCX, v.bhCCY))})
  ELSE LET g(p) == gapCircleToCenterCutoutRoundedRect(p[1], p[2], v.bhDia \div 2,
                                                      v.cutoutX, v.cutoutY, v.cutoutR)
       IN MinOver({g(p) : p \in Range(FlangeHoleCenters(v.bhCCX, v.bhCCY))})

\* faulty variant of FlangeFieldErrors: no test of a radius against the size
FlangeFieldErrorsNoRange(v, rBlank, cBlank) ==
     Err(~IsFinite(v.odX) \/ v.odX <= 0, "OD X must be a positive number.")
  \o Err(~IsFinite(v.odY) \/ v.odY <= 0, "OD Y must be a positive number.")
  \o Err(~rBlank /\ (~IsFinite(v.cornerR) \/ v.cornerR < 0),
         "Corner Radius must be blank or a non-negative number.")
  \o Err(~IsFinite(v.bhCCX) \/ v.bhCCX <= 0,
         "Bolt Hole Center To Center X must be a positive number.")
  \o Err(~IsFinite(v.bhCCY) \/ v.bhCCY <= 0,
         "Bolt Hole Center To Center Y must be a positive number.")
  \o Err(~IsFinite(v.bhDia) \/ v.bhDia <= 0, "Bolt Hole Diameter must be a positive number.")
  \o (IF v.cutoutType = "circle"
      THEN Err(~IsFinite(v.cutoutDia) \/ v.cutoutDia <= 0,
               "Center Cutout Diameter must be a positive number.")
      ELSE    Err(~IsFinite(v.cutoutX) \/ v.cutoutX <= 0,
                  "Center Cutout X must be a positive number.")
           \o Err(~IsFinite(v.cutoutY) \/ v.cutoutY <= 0,
                  "Center Cutout Y must be a positive number.")
           \o Err(~cBlank /\ (~IsFinite(v.cutoutR) \/ v.cutoutR < 0),
                  "Center Cutout Corner Radius must be blank or a non-negative number."))

\* "Basic numeric validation"; rBlank / cBlank: the radius field is blank
FlangeFieldErrors(v, rBlank, cBlank) ==
     Err(~IsFinite(v.odX) \/ v.odX <= 0, "OD X must be a positive number.")
  \o Err(~IsFinite(v.odY) \/ v.odY <= 0, "OD Y must be a positive number.")
  \o Err(~rBlank /\ (~IsFinite(v.cornerR) \/ v.cornerR < 0),
         "Corner Radius must be blank or a non-negative number.")
  \o Err(IsFinite(v.odX) /\ IsFinite(v.odY) /\ IsFinite(v.cornerR)
           /\ clampRadius(v.cornerR, v.odX, v.odY) # v.cornerR,
         "Corner Radius is too large for the OD.")
  \o Err(~IsFinite(v.bhCCX) \/ v.bhCCX <= 0,
         "Bolt Hole Center To Center X must be a positive number.")
  \o Err(~IsFinite(v.bhCCY) \/ v.bhCCY <= 0,
         "Bolt Hole Center To Center Y must be a positive number.")
  \o Err(~IsFinite(v.bhDia) \/ v.bhDia <= 0, "Bolt Hole Diameter must be a positive number.")
  \o (IF v.cutoutType = "circle"
      THEN Err(~IsFinite(v.cutoutDia) \/ v.cutoutDia <= 0,
               "Center Cutout Diameter must be a positive number.")
      ELSE    Err(~IsFinite(v.cutoutX) \/ v.cutoutX <= 0,
                  "Center Cutout X must be a positive number.")
           \o Err(~IsFinite(v.cutoutY) \/ v.cutoutY <= 0,
                  "Center Cutout Y must be a positive number.")
           \o Err(~cBlank /\ (~IsFinite(v.cutoutR) \/ v.cutoutR < 0),
                  "Center Cutout Corner Radius must be blank or a non-negative number.")
           \o Err(IsFinite(v.cutoutX) /\ IsFinite(v.cutoutY) /\ IsFinite(v.cutoutR)
                    /\ clampRadius(v.cutoutR, v.cutoutX, v.cutoutY) # v.cutoutR,
                  "Center Cutout Corner Radius is too large for the cutout."))

\* faulty variant of FlangeClearanceErrors: the block stops at its first error
FlangeClearanceErrorsFirstOnly(v) ==
  LET all ==    Err(FlangeHoleODGap(v) <= 0, "Bolt holes are touching or outside the OD.")
             \o Err(v.bhCCX <= v.bhDia,
                    "Bolt holes are touching/overlapping each other on X spacing.")
             \o Err(v.bhCCY <= v.bhDia,
                    "Bolt holes are touching/overlapping each other on Y spacing.")
             \o Err(FlangeCutoutODGap(v) <= 0, "Center cutout is touching or outside the OD.")
             \o Err(FlangeHoleCutoutGap(v) <= 0,
                    "Bolt holes are touching/overlapping the center cutout.")
  IN IF all = <<>> THEN <<>> ELSE <<all[1]>>

\* faulty variant of FlangeClearanceErrors: a bolt hole may touch the OD
FlangeClearanceErrorsTouching(v) ==
     Err(FlangeHoleODGap(v) < 0, "Bolt holes are touching or outside the OD.")
  \o Err(v.bhCCX <= v.bhDia, "Bolt holes are touching/overlapping each other on X spacing.")
  \o Err(v.bhCCY <= v.bhDia, "Bolt holes are touching/overlapping each other on Y spacing.")
  \o Err(FlangeCutoutODGap(v) <= 0, "Center cutout is touching or outside the OD.")
  \o Err(FlangeHoleCutoutGap(v) <= 0, "Bolt holes are touching/overlapping the center cutout.")

\* "Geometry calculations": the four clearance checks
FlangeClearanceErrors(v) ==
     Err(FlangeHoleODGap(v) <= 0, "Bolt holes are touching or outside the OD.")
  \o Err(v.bhCCX <= v.bhDia, "Bolt holes are touching/overlapping each other on X spacing.")
  \o Err(v.bhCCY <= v.bhDia, "Bolt holes are touching/overlapping each other on Y spacing.")
  \o Err(FlangeCutoutODGap(v) <= 0, "Center cutout is touching or outside the OD.")
  \o Err(FlangeHoleCutoutGap(v) <= 0, "Bolt holes are touching/overlapping the center cutout.")

\* the values validateAndPreview reads from the form
FlangeParsed(f, cutoutType) ==
  [odX |-> parseInches(f["odX"]), odY |-> parseInches(f["odY"]),
   cornerR |-> IF Trim(f["cornerR"]) # <<>> THEN parseInches(f["cornerR"]) ELSE 0,
   bhCCX |-> parseInches(f["bhCCX"]), bhCCY |-> parseInches(f["bhCCY"]),
   bhDia |-> parseInches(f["bhDia"]),
   cutoutType |-> cutoutType,
   cutoutDia |-> parseInches(f["cutoutDia"]),
   cutoutX |-> parseInches(f["cutoutX"]), cutoutY |-> parseInches(f["cutoutY"]),
   cutoutR |-> IF Trim(f["cutoutR"]) # <<>> THEN parseInches(f["cutoutR"]) ELSE 0]

\* validateAndPreview once the fields are parsed into v
FlangeOutcome(v, rBlank, cBlank) ==
  LET e1 == FlangeFieldErrors(v, rBlank, cBlank)
      e2 == FlangeClearanceErrors(v)
  IN IF e1 # <<>> THEN [errors |-> e1, spec |-> Null]
     ELSE IF e2 # <<>> THEN [errors |-> e2, spec |-> Null]
     ELSE [errors |-> <<>>,
           \* lastValid = { ..., cornerR: cornerR || 0, ..., cutoutR: cutoutR || 0 }
           spec |-> [v EXCEPT !.cornerR = IF IsFinite(@) THEN @ ELSE 0,
                              !.cutoutR = IF IsFinite(@) THEN @ ELSE 0]]

\* validateAndPreview on the given field texts: the errors and the new lastValid
FlangeValidation(f, cutoutType) ==
  FlangeOutcome(FlangeParsed(f, cutoutType), Trim(f["cornerR"]) = <<>>,
                Trim(f["cutoutR"]) = <<>>)

\* click on validateBtn
FlangeValidate ==
  /\ gen = "flange"
  /\ \E v \in {FlangeValidation(fields, sel)} :
        /\ lastValid' = v.spec
        /\ report' = v.errors
        /\ status' = IF v.errors # <<>> THEN "ERRORS" ELSE "OK"
        /\ downloadEnabled' = IF v.errors # <<>> THEN FALSE ELSE HasName(filename)
  /\ lastOp' = "validate"
  /\ ran' = {}
  /\ exported' = Null
  /\ warns' = <<>>
  /\ UNCHANGED <<call, gen, fields, sel, filename>>

\* "input" listener of the ten dimension fields
FlangeInput ==
  /\ gen = "flange"
  /\ \E f \in FlangeFields : \E t \in FlangeTexts(f) : fields' = [fields EXCEPT ![f] = t]
  /\ lastValid' = Null
  /\ status' = "Ready."
  /\ downloadEnabled' = FALSE
  /\ report' = <<>>
  /\ warns' = <<>>
  /\ lastOp' = "input"
  /\ ran' = {}
  /\ exported' = Null
  /\ UNCHANGED <<call, gen, sel, filename>>

\* faulty variant of FlangeCutoutType: only the rows are toggled, lastValid is kept
FlangeCutoutTypeStale ==
  /\ gen = "flange"
  /\ \E t \in CutoutTypes : sel' = t
  /\ lastOp' = "cutoutType"
  /\ ran' = {}
  /\ exported' = Null
  /\ UNCHANGED <<call, gen, fields, filename, lastValid, status, downloadEnabled, report, warns>>

\* "change" listener of cutoutType: updateCutoutUI
FlangeCutoutType ==
  /\ gen = "flange"
  /\ \E t \in CutoutTypes : sel' = t
  /\ lastValid' = Null
  /\ status' = "Ready."
  /\ downloadEnabled' = FALSE
  /\ report' = <<>>
  /\ warns' = <<>>
  /\ lastOp' = "cutoutType"
  /\ ran' = {}
  /\ exported' = Null
  /\ UNCHANGED <<call, gen, fields, filename>>

\* "input" listener of the CAD-name field
FlangeFilename ==
  /\ gen = "flange"
  /\ \E t \in NameTexts : filename' = t
  /\ downloadEnabled' = (lastValid # Null /\ HasName(filename'))
  /\ lastOp' = "filename"
  /\ ran' = {}
  /\ exported' = Null
  /\ UNCHANGED <<call, gen, fields, sel, lastValid, status, report, warns>>

\* the text downloadDXF builds from lastValid: the OD, the four bolt holes
\* in the order of the holes array, the centre cutout
FlangeDXF(v) ==
     dxfHeader
  \o dxfPolyline(roundedRectPoints(v.odX, v.odY, v.cornerR), "Perimeter", TRUE)
  \o dxfCircle(-(v.bhCCX \div 2), -(v.bhCCY \div 2), v.bhDia \div 2, "Holes")
  \o dxfCircle(v.bhCCX \div 2, -(v.bhCCY \div 2), v.bhDia \div 2, "Holes")
  \o dxfCircle(-(v.bhCCX \div 2), v.bhCCY \div 2, v.bhDia \div 2, "Holes")
  \o dxfCircle(v.bhCCX \div 2, v.bhCCY \div 2, v.bhDia \div 2, "Holes")
  \o (IF v.cutoutType = "circle" THEN dxfCircle(0, 0, v.cutoutDia \div 2, "Holes")
      ELSE dxfPolyline(roundedRectPoints(v.cutoutX, v.cutoutY, v.cutoutR), "Holes", TRUE))
  \o dxfFooter

\* click on downloadBtn: downloadDXF
FlangeDownload ==
  /\ gen = "flange"
  /\ lastOp' = "download"
  /\ ran' = {}
  /\ report' = <<>>
  /\ IF ~HasName(filename)
     THEN /\ status' = "Enter CAD Name above, then download."
          /\ downloadEnabled' = FALSE
          /\ exported' = Null
     ELSE IF lastValid = Null
     THEN /\ status' = "Click Validate & Preview first, then download."
          /\ exported' = Null
          /\ UNCHANGED downloadEnabled
     ELSE /\ exported' = [name |-> Trim(filename), spec |-> lastValid,
                          dxf |-> FlangeDXF(lastValid)]
          /\ status' = "DXF downloaded."
          /\ UNCHANGED downloadEnabled
  /\ UNCHANGED <<call, gen, fields, sel, filename, lastValid, warns>>

(***************************************************************************)
(* firetube.js: parsing and formatting                                     *)
(***************************************************************************)
\* a value returned, or an Error thrown with a message
Ret(v) == [ok |-> TRUE, v |-> v, msg |-> ""]
Throw(msg) == [ok |-> FALSE, v |-> NaN, msg |-> msg]

IsDigitRun(s) == s # <<>> /\ AllDigits(s)

\* /^(\d+)\s+(\d+)$/ : the text before the slash of a mixed fraction
IsWholeAndNum(s) ==
  /\ Includes(s, " ")
  /\ LET p == Split(s, " ")
     IN IsDigitRun(p[1]) /\ IsDigitRun(p[Len(p)])
        /\ \A i \in 2..(Len(p) - 1) : p[i] = <<>>

\* parseInches of firetube.js: hyphens are not rewritten, failures throw
\* Number(raw), or the Error for a text that is no number
ParseNumber(val) == IF ~IsFinite(val) THEN Throw("Invalid number") ELSE Ret(val)

\* whole + num / den of three runs of digits read by parseInt
ParseFraction(whole, num, den) ==
  IF den = 0 THEN Throw("Invalid fraction")
  ELSE Ret(whole * Scale + Quot(num * Scale, den * Scale))

\* "1 1/2": lp = the pieces of the text left of the slash
ParseMixed(lp, den) == ParseFraction(DigitsVal(lp[1]), DigitsVal(lp[Len(lp)]), DigitsVal(den))

\* raw with one slash: the texts left and right of it, without the white
\* space next to the slash
ParseSlashed(raw, left, den) ==
  IF IsDigitRun(den) /\ IsWholeAndNum(left) THEN ParseMixed(Split(left, " "), den)
  ELSE IF IsDigitRun(den) /\ IsDigitRun(left)
       THEN ParseFraction(0, DigitsVal(left), DigitsVal(den))
  ELSE ParseNumber(NumberOfTrimmed(raw))

\* raw and its pieces between slashes
ParseRaw(raw, p) ==
  IF raw = <<>> THEN Throw("Empty value")
  ELSE IF Len(p) = 2 THEN ParseSlashed(raw, TrimRight(p[1]), TrimLeft(p[2]))
  ELSE ParseNumber(NumberOfTrimmed(raw))

\* parseInches of firetube.js: hyphens are not rewritten, failures throw
ftParseInches(str) == ParseRaw(Trim(str), Split(Trim(str), "/"))

\* longest run of digits at the head of s
RECURSIVE DigitPrefix(_)
DigitPrefix(s) ==
  IF s # <<>> /\ IsDigit(Head(s)) THEN <<Head(s)>> \o DigitPrefix(Tail(s)) ELSE <<>>

\* parseInt(text, 10): a plain integer, or NaN
parseInt(str) ==
  LET t == TrimLeft(str)
      neg == t # <<>> /\ Head(t) = "-"
      u == IF t # <<>> /\ Head(t) \in {"-", "+"} THEN Tail(t) ELSE t
      d == DigitPrefix(u)
  IN IF d = <<>> THEN NaN ELSE IF neg THEN -DigitsVal(d) ELSE DigitsVal(d)

(***************************************************************************)
(* firetube.js: bolt-circle perimeter and hole placement                   *)
(***************************************************************************)
obroundPerimeter(L, W) == 2 * (L - W) + PiTimes(W)

\* angle start + span * (d / len), in hundredths of a degree
ArcAngle(start, span, d, len) ==
  IF len = 0 THEN start * 100 ELSE start * 100 + (span * 100 * d) \div len

\* the point at arc length dist along the obround, from (L/2, 0) counter-clockwise
perimeterPointObround(L, W, dist) ==
  LET r == W \div 2
      straight == L - W
      cx == straight \div 2
      quarterArcLen == PiTimes(r) \div 2
      leftSemiLen == PiTimes(r)
      total == 2 * straight + PiTimes(W)
      d1 == ((dist % total) + total) % total
      d2 == d1 - quarterArcLen
      d3 == d2 - straight
      d4 == d3 - leftSemiLen
      d5 == d4 - straight
      OnArc(c, ang) == <<c + TimesTrig(r, CosC(ang)), TimesTrig(r, SinC(ang))>>
  IN IF d1 <= quarterArcLen THEN OnArc(cx, ArcAngle(0, 90, d1, quarterArcLen))
     ELSE IF d2 <= straight THEN <<cx - (2 * cx * d2) \div straight, r>>
     ELSE IF d3 <= leftSemiLen THEN OnArc(-cx, ArcAngle(90, 180, d3, leftSemiLen))
     ELSE IF d4 <= straight THEN <<-cx + (2 * cx * d4) \div straight, -r>>
     ELSE OnArc(cx, ArcAngle(270, 90, d5, quarterArcLen))

\* faulty variant of computeHoleCenters: the off-centre shift is left out
computeHoleCentersUnshifted(inputs) ==
  LET P == obroundPerimeter(inputs.bcLong, inputs.bcShort)
      N == inputs.holeCount
      c2c == P \div N
  IN [centers |-> [i \in 1..N |->
                     perimeterPointObround(inputs.bcLong, inputs.bcShort, (i - 1) * c2c)],
      c2c |-> c2c]

\* computeHoleCenters: holeCount centres, c2c apart along the bolt circle
computeHoleCenters(inputs) ==
  LET P == obroundPerimeter(inputs.bcLong, inputs.bcShort)
      N == inputs.holeCount
      c2c == P \div N
      shift == IF inputs.centerMode = "off" THEN c2c \div 2 ELSE 0
  IN [centers |-> [i \in 1..N |->
                     perimeterPointObround(inputs.bcLong, inputs.bcShort, (i - 1) * c2c + shift)],
      c2c |-> c2c]

(***************************************************************************)
(* firetube.js: validation                                                 *)
(***************************************************************************)
FiretubeFields ==
  {"odLong", "odShort", "idLong", "idShort", "bcLong", "bcShort",
   "holeCount", "holeDia", "crossSection"}

\* largest hole count typed into the form
MaxHoleCount == 5

FiretubeTexts(f) ==
  CASE f = "odLong" -> {<<>>, <<"1", "5">>}
    [] f = "odShort" -> {<<"1", "5">>}
    [] f = "idLong" -> {<<"1">>}
    [] f = "idShort" -> {<<"1">>}
    [] f = "bcLong" -> {<<"8">>, <<"9">>}
    [] f = "bcShort" -> {<<"8">>, <<"9">>}
    [] f = "holeCount" -> {NatText(n) : n \in {0, MaxHoleCount - 1, MaxHoleCount}}
    [] f = "holeDia" -> {<<"1">>, <<"6">>, <<"1", "-", "1", "/", "2">>}
    [] f = "crossSection" -> {<<>>, <<"7">>, <<"8">>}

\* the form as loaded
FiretubeInitFields ==
  [odLong |-> <<>>, odShort |-> <<"1", "5">>, idLong |-> <<"1">>, idShort |-> <<"1">>,
   bcLong |-> <<"8">>, bcShort |-> <<"8">>, holeCount |-> NatText(MaxHoleCount - 1),
   holeDia |-> <<"1">>, crossSection |-> <<>>]

CenterModes == {"on", "off"}

\* REQUIRED_FIELDS, in order, with their labels
RequiredFields ==
  << <<"odLong", "Long Side OD">>, <<"odShort", "Short Side OD">>,
     <<"bcLong", "Long Side BC">>, <<"bcShort", "Short Side BC">>,
     <<"holeCount", "Hole Count">>, <<"holeDia", "Hole Diameter">> >>

isBlank(f, id) == Trim(f[id]) = <<>>

\* the message of the first entry of a list of <<failed, message>> pairs that
\* failed: the statement that throws; "" when none does
FirstThrow(checks) ==
  IF \A i \in 1..Len(checks) : ~checks[i][1] THEN ""
  ELSE checks[CHOOSE i \in 1..Len(checks) :
                checks[i][1] /\ \A j \in 1..(i - 1) : ~checks[j][1]][2]

\* requireFilled as a <<failed, message>> pair
requireFilled(f, id, label) == <<isBlank(f, id), label \o " is required.">>

\* requireAllMandatory: the message thrown, or ""
requireAllMandatory(f) ==
  FirstThrow([i \in 1..Len(RequiredFields) |->
                requireFilled(f, RequiredFields[i][1], RequiredFields[i][2])]
             \o (IF isBlank(f, "crossSection")
                 THEN << requireFilled(f, "idLong", "Long Side ID"),
                         requireFilled(f, "idShort", "Short Side ID") >>
                 ELSE <<>>))

\* applyCrossSectionToIDIfPresent: the message thrown (or "") and the form
\* fields afterwards; the ID fields are rewritten only when nothing throws
ApplyCrossSection(f, cs, odLong, odShort) ==
  LET thrown == FirstThrow(<< <<~cs.ok, cs.msg>>,
                              requireFilled(f, "odLong", "Long Side OD"),
                              requireFilled(f, "odShort", "Short Side OD"),
                              <<~odLong.ok, odLong.msg>>,
                              <<~odShort.ok, odShort.msg>> >>)
  IN IF thrown # "" THEN [thrown |-> thrown, fields |-> f]
     ELSE [thrown |-> "",
           fields |-> [f EXCEPT !["idLong"] = fmtIn(odLong.v - 2 * cs.v),
                                !["idShort"] = fmtIn(odShort.v - 2 * cs.v)]]

applyCrossSectionToIDIfPresent(f) ==
  IF isBlank(f, "crossSection") THEN [thrown |-> "", fields |-> f]
  ELSE ApplyCrossSection(f, ftParseInches(f["crossSection"]), ftParseInches(f["odLong"]),
                         ftParseInches(f["odShort"]))

OverlapMsg ==
  "Bolt holes overlap: Bolt Hole Center To Center is not large enough for the hole diameter."

\* faulty variant of HolesOverlap: the spacing is compared with the hole radius
HolesOverlapRadius(P, holeCount, holeDia) == P \div holeCount <= holeDia \div 2

\* "c2c <= holeDia" with c2c = P / holeCount
HolesOverlap(P, holeCount, holeDia) == P \div holeCount <= holeDia

\* computeInputs: the message thrown (or ""), the inputs returned, and the
\* form fields afterwards
CheckInputs(f, p, holeCount, centerMode) ==
  LET parse == FirstThrow(<< <<~p.odLong.ok, p.odLong.msg>>, <<~p.odShort.ok, p.odShort.msg>>,
                             <<~p.idLong.ok, p.idLong.msg>>, <<~p.idShort.ok, p.idShort.msg>>,
                             <<~p.bcLong.ok, p.bcLong.msg>>, <<~p.bcShort.ok, p.bcShort.msg>>,
                             <<~p.holeDia.ok, p.holeDia.msg>> >>)
      rules == FirstThrow(<<
        <<p.odLong.v < p.odShort.v, "Long Side OD must be the same as or larger than Short Side OD.">>,
        <<p.idLong.v < p.idShort.v, "Long Side ID must be the same as or larger than Short Side ID.">>,
        <<p.bcLong.v < p.bcShort.v, "Long Side BC must be the same as or larger than Short Side BC.">>,
        <<p.idLong.v >= p.odLong.v \/ p.idShort.v >= p.odShort.v, "ID must be smaller than OD.">>,
        <<p.bcLong.v > p.odLong.v \/ p.bcShort.v > p.odShort.v, "BC must fit inside OD.">>,
        <<~(IsFinite(holeCount) /\ holeCount > 0), "Hole count must be greater than zero.">>,
        <<~(p.holeDia.v > 0), "Hole diameter must be greater than zero.">> >>)
      inputs == [odLong |-> p.odLong.v, odShort |-> p.odShort.v, idLong |-> p.idLong.v,
                 idShort |-> p.idShort.v, bcLong |-> p.bcLong.v, bcShort |-> p.bcShort.v,
                 holeCount |-> holeCount, holeDia |-> p.holeDia.v, centerMode |-> centerMode]
  IN IF parse # "" THEN [thrown |-> parse, inputs |-> Null, fields |-> f]
     ELSE IF rules # "" THEN [thrown |-> rules, inputs |-> Null, fields |-> f]
     ELSE IF HolesOverlap(obroundPerimeter(p.bcLong.v, p.bcShort.v), holeCount, p.holeDia.v)
          THEN [thrown |-> OverlapMsg, inputs |-> Null, fields |-> f]
     ELSE [thrown |-> "", inputs |-> inputs, fields |-> f]

\* computeInputs after requireAllMandatory: app is the outcome of
\* applyCrossSectionToIDIfPresent, f the form after it
ParseInputs(app, f, centerMode) ==
  IF app.thrown # "" THEN [thrown |-> app.thrown, inputs |-> Null, fields |-> f]
  ELSE CheckInputs(f, [id \in FiretubeFields \ {"holeCount", "crossSection"} |->
                         ftParseInches(f[id])],
                   parseInt(f["holeCount"]), centerMode)

ApplyThenParse(app, centerMode) == ParseInputs(app, app.fields, centerMode)

computeInputs(f0, centerMode) ==
  IF requireAllMandatory(f0) # ""
  THEN [thrown |-> requireAllMandatory(f0), inputs |-> Null, fields |-> f0]
  ELSE ApplyThenParse(applyCrossSectionToIDIfPresent(f0), centerMode)

\* clearanceBreakdownBySides: edge of hole to OD / ID on each side
clearanceBreakdownBySides(inputs) ==
  LET holeR == inputs.holeDia \div 2
  IN [longToOD |-> (inputs.odShort - inputs.bcShort) \div 2 - holeR,
      shortToOD |-> (inputs.odLong - inputs.bcLong) \div 2 - holeR,
      longToID |-> (inputs.bcShort - inputs.idShort) \div 2 - holeR,
      shortToID |-> (inputs.bcLong - inputs.idLong) \div 2 - holeR]

\* the rule(label, value) calls of evaluateClearances, in order
ClearanceRules(bd) ==
  << <<"Long Side - Edge Of Hole to OD", bd.longToOD>>,
     <<"Long Side - Edge Of Hole to ID", bd.longToID>>,
     <<"Short Side - Edge Of Hole to OD", bd.shortToOD>>,
     <<"Short Side - Edge Of Hole to ID", bd.shortToID>> >>

\* the labels of the rules with the given indices, in the order of the rules
LabelsWhere(rules, hits) ==
  LET isHit(i) == i \in hits
      kept == SelectSeq([i \in 1..Len(rules) |-> i], isHit)
  IN [k \in 1..Len(kept) |-> rules[kept[k]][1]]

\* faulty variant of evaluateClearances: a value below 1.0 is an error as well
evaluateClearancesBlocking(bd) ==
  LET rules == ClearanceRules(bd)
      all == 1..Len(rules)
  IN [errors |-> LabelsWhere(rules, {i \in all : rules[i][2] < Scale}),
      warnings |-> LabelsWhere(rules, {i \in all : ~(rules[i][2] < Scale \div 2) /\ rules[i][2] < Scale})]

\* faulty variant of evaluateClearances: a value of exactly 0.5 is an error
evaluateClearancesInclusive(bd) ==
  LET rules == ClearanceRules(bd)
      all == 1..Len(rules)
  IN [errors |-> LabelsWhere(rules, {i \in all : rules[i][2] <= Scale \div 2}),
      warnings |-> LabelsWhere(rules, {i \in all : ~(rules[i][2] <= Scale \div 2) /\ rules[i][2] < Scale})]

\* evaluateClearances: value < 0.5 is an error, else value < 1.0 a warning
evaluateClearances(bd) ==
  LET rules == ClearanceRules(bd)
      all == 1..Len(rules)
  IN [errors |-> LabelsWhere(rules, {i \in all : rules[i][2] < Scale \div 2}),
      warnings |-> LabelsWhere(rules, {i \in all : ~(rules[i][2] < Scale \div 2) /\ rules[i][2] < Scale})]

\* runValidation: what it throws, or what it returns, and the helpers it ran
Validated(ci) ==
  IF ci.thrown # ""
  THEN [thrown |-> ci.thrown, inputs |-> Null, centers |-> <<>>, errors |-> <<>>,
        warnings |-> <<>>, fields |-> ci.fields, ran |-> {"computeInputs"}]
  ELSE [thrown |-> "", inputs |-> ci.inputs,
        centers |-> computeHoleCenters(ci.inputs).centers,
        errors |-> evaluateClearances(clearanceBreakdownBySides(ci.inputs)).errors,
        warnings |-> evaluateClearances(clearanceBreakdownBySides(ci.inputs)).warnings,
        fields |-> ci.fields,
        ran |-> {"computeInputs", "computeHoleCenters", "evaluateClearances"}]

runValidation(f0, centerMode) == Validated(computeInputs(f0, centerMode))

(***************************************************************************)
(* firetube.js: the form                                                   *)
(***************************************************************************)
\* refreshIdLocking: applyCrossSectionToIDIfPresent, exceptions ignored
refreshIdLocking(f) == applyCrossSectionToIDIfPresent(f).fields

\* typing into a dimension field; the ID fields are disabled while a cross
\* section is entered; crossSection, odLong and odShort have an "input" listener
FiretubeInput ==
  /\ gen = "firetube"
  /\ \E f \in FiretubeFields : \E t \in FiretubeTexts(f) :
       /\ f \in {"idLong", "idShort"} => isBlank(fields, "crossSection")
       /\ fields' = IF f \in {"crossSection", "odLong", "odShort"}
                    THEN refreshIdLocking([fields EXCEPT ![f] = t])
                    ELSE [fields EXCEPT ![f] = t]
  /\ lastOp' = "input"
  /\ ran' = {}
  /\ exported' = Null
  /\ UNCHANGED <<call, gen, sel, filename, lastValid, downloadEnabled, status, report, warns>>

\* choosing the pattern in centerMode (no listener)
FiretubeCenterMode ==
  /\ gen = "firetube"
  /\ \E m \in CenterModes : sel' = m
  /\ lastOp' = "centerMode"
  /\ ran' = {}
  /\ exported' = Null
  /\ UNCHANGED <<call, gen, fields, filename, lastValid, downloadEnabled, status, report, warns>>

\* "input" listener of the CAD-name field: updateDownloadEnabled
FiretubeFilename ==
  /\ gen = "firetube"
  /\ \E t \in NameTexts : filename' = t
  /\ downloadEnabled' = HasName(filename')
  /\ lastOp' = "filename"
  /\ ran' = {}
  /\ exported' = Null
  /\ UNCHANGED <<call, gen, fields, sel, lastValid, status, report, warns>>

\* click on validateBtn
FiretubeValidate ==
  /\ gen = "firetube"
  /\ \E v \in {runValidation(fields, sel)} :
        /\ fields' = v.fields
        /\ status' = IF v.thrown # "" THEN "ERROR" ELSE "REPORT"
        /\ report' = IF v.thrown # "" THEN <<v.thrown>> ELSE v.errors
        /\ warns' = v.warnings
        /\ ran' = v.ran
  /\ lastOp' = "validate"
  /\ exported' = Null
  /\ UNCHANGED <<call, gen, sel, filename, lastValid, downloadEnabled>>

(***************************************************************************)
(* firetube.js: DXF build.  The dxf array is the sequence of pushed items. *)
(***************************************************************************)
\* fmt of a double of v ten-millionths:
\* (Math.round(n * 1000000) / 1000000).toString()
fmtFine(v) == DecimalText((v + 5) \div 10, 6)

\* fmt of a value of n thousandths, which the rounding leaves as it is
fmt(n) == Concat(fmtIn(n))

addLayerDef(name) == <<"0", "LAYER", "2", name, "70", "0", "62", "7", "6", "CONTINUOUS">>

addLine(layer, x1, y1, x2, y2) ==
  <<"0", "LINE", "8", layer, "10", fmt(x1), "20", fmt(y1), "30", "0",
    "11", fmt(x2), "21", fmt(y2), "31", "0">>

\* a1 and a2 are whole degrees
addArc(layer, cx, cy, r, a1, a2) ==
  <<"0", "ARC", "8", layer, "10", fmt(cx), "20", fmt(cy), "30", "0", "40", fmt(r),
    "50", fmt(a1 * Scale), "51", fmt(a2 * Scale)>>

addCircle(layer, cx, cy, r) ==
  <<"0", "CIRCLE", "8", layer, "10", fmt(cx), "20", fmt(cy), "30", "0", "40", fmt(r)>>

\* addObroundOutline with offsetX = offsetY = 0, for L >= W
addObroundOutline(layer, L, W) ==
     addLine(layer, -((L - W) \div 2), W \div 2, (L - W) \div 2, W \div 2)
  \o addLine(layer, (L - W) \div 2, -(W \div 2), -((L - W) \div 2), -(W \div 2))
  \o addArc(layer, (L - W) \div 2, 0, W \div 2, 270, 90)
  \o addArc(layer, -((L - W) \div 2), 0, W \div 2, 90, 270)

\* "if (L < W) throw" of addObroundOutline, for the OD and then the ID outline
ObroundThrows(inputs) ==
  IF inputs.odLong < inputs.odShort \/ inputs.idLong < inputs.idShort
  THEN "Long must be >= Short." ELSE ""

\* the items pushed by "for (const [x, y] of holeCenters) addCircle(...)"
CircleItems(holeCenters, holeR) ==
  [i \in 1..(12 * Len(holeCenters)) |->
     addCircle("Holes", holeCenters[((i - 1) \div 12) + 1][1],
               holeCenters[((i - 1) \div 12) + 1][2], holeR)[((i - 1) % 12) + 1]]

\* Array.prototype.pop: the array without its last item
Pop(dxf) == SubSeq(dxf, 1, Len(dxf) - 1)

\* buildDXF: the pushes and the pop in order, then join("\n")
buildDXF(inputs, holeCenters) ==
  Join(   Pop(   <<"0", "SECTION", "2", "HEADER">>
              \o <<"9", "$INSUNITS", "70", "1">>
              \o <<"0", "ENDSEC">>
              \o <<"0", "SECTION", "2", "TABLES">>
              \o <<"0", "TABLE", "2", "LAYER", "70", "2">>
              \o <<"0", "TABLE", "2", "LAYER", "70", "2">>)
       \o <<"0", "TABLE", "2", "LAYER", "70", "2">>
       \o addLayerDef("Perimeter")
       \o addLayerDef("Holes")
       \o <<"0", "ENDTAB">>
       \o <<"0", "ENDSEC">>
       \o <<"0", "SECTION", "2", "ENTITIES">>
       \o addObroundOutline("Perimeter", inputs.odLong, inputs.odShort)
       \o addObroundOutline("Holes", inputs.idLong, inputs.idShort)
       \o CircleItems(holeCenters, inputs.holeDia \div 2)
       \o <<"0", "ENDSEC", "0", "EOF">>)

\* click on downloadBtn
FiretubeDownload ==
  /\ gen = "firetube"
  /\ lastOp' = "download"
  /\ IF ~HasName(filename)
     THEN /\ status' = "ERROR"
          /\ report' = <<"Please enter a CAD Name before downloading.">>
          /\ warns' = <<>>
          /\ downloadEnabled' = FALSE
          /\ ran' = {}
          /\ exported' = Null
          /\ UNCHANGED fields
     ELSE \E v \in {runValidation(fields, sel)} :
             /\ fields' = v.fields
             /\ report' = IF v.thrown # "" THEN <<v.thrown>>
                          ELSE IF v.errors = <<>> /\ ObroundThrows(v.inputs) # ""
                          THEN <<ObroundThrows(v.inputs)>>
                          ELSE v.errors
             /\ warns' = v.warnings
             /\ UNCHANGED downloadEnabled
             /\ IF v.thrown # ""
                THEN status' = "ERROR" /\ ran' = v.ran /\ exported' = Null
                ELSE IF v.errors # <<>>
                THEN status' = "REPORT" /\ ran' = v.ran /\ exported' = Null
                ELSE IF ObroundThrows(v.inputs) # ""
                THEN /\ status' = "ERROR"
                     /\ ran' = v.ran \cup {"buildDXF"}
                     /\ exported' = Null
                ELSE /\ status' = "Saved"
                     /\ ran' = v.ran \cup {"buildDXF"}
                     /\ exported' = [name |-> Trim(filename), inputs |-> v.inputs,
                                     centers |-> v.centers,
                                     dxf |-> buildDXF(v.inputs, v.centers)]
  /\ UNCHANGED <<call, gen, sel, filename, lastValid>>

(***************************************************************************)
(* The page as loaded, and its events.                                     *)
(***************************************************************************)
Generators == {"ellipse", "jumper", "flange", "firetube"}

InitFields(g) ==
  CASE g = "ellipse" -> [f \in EllipseFields |-> <<>>]
    [] g = "jumper" -> [f \in JumperFields |-> <<>>]
    [] g = "flange" -> FlangeInitFields
    [] g = "firetube" -> FiretubeInitFields

Init ==
  /\ gen \in Generators
  /\ fields = InitFields(gen)
  /\ sel = (CASE gen = "flange" -> "circle" [] gen = "firetube" -> "on" [] OTHER -> "")
  /\ filename = <<>>
  /\ lastValid = Null
  /\ downloadEnabled = FALSE
  /\ status = "Ready."
  /\ report = <<>>
  /\ warns = <<>>
  /\ lastOp = "init"
  /\ ran = {}
  /\ exported = Null
  /\ call = Null

Next ==
  \/ EllipseInput
  \/ EllipseFilename
  \/ EllipseValidate
  \/ EllipseDownload
  \/ JumperInput
  \/ JumperFilename
  \/ JumperValidate
  \/ JumperDownload
  \/ FlangeInput
  \/ FlangeCutoutType
  \/ FlangeFilename
  \/ FlangeValidate
  \/ FlangeDownload
  \/ FiretubeInput
  \/ FiretubeCenterMode
  \/ FiretubeFilename
  \/ FiretubeValidate
  \/ FiretubeDownload

Spec == Init /\ [][Next]_vars

(***************************************************************************)
(* The functions called on their own.  Each page's script is loaded and one *)
(* of its functions is applied to arguments the pages themselves may not   *)
(* produce; call records the function, its arguments and what it returned. *)
(* A function's result does not depend on earlier calls: one call is made.  *)
(***************************************************************************)
pageVars == <<gen, fields, sel, filename, lastValid, downloadEnabled, status, report,
              warns, lastOp, ran, exported>>

\* doubles with up to seven decimals, in ten-millionths
FineValues ==
  {w * FineScale + f : w \in {-8, 0, 4}, f \in {0, 4, 5, 1234567, 5000000, 9999996}}

\* fmt(n) of firetube.js
CallFmt ==
  /\ gen = "firetube" /\ call = Null
  /\ \E v \in FineValues : call' = [fn |-> "fmt", args |-> <<v>>, ret |-> fmtFine(v)]
  /\ UNCHANGED pageVars

\* String(x) as dxfCircle and dxfPolyline of ellipse.js, flange.js and
\* jumper.js apply it to a coordinate
CallString ==
  /\ gen \in {"ellipse", "flange", "jumper"} /\ call = Null
  /\ \E v \in FineValues : call' = [fn |-> "String", args |-> <<v>>, ret |-> StringFine(v)]
  /\ UNCHANGED pageVars

\* the result object of buildOD: { error } or { pts }
buildODResult(cc, RboltOuter, RidOuter) ==
  IF buildOD(cc, RboltOuter, RidOuter).error # ""
  THEN [error |-> buildOD(cc, RboltOuter, RidOuter).error]
  ELSE [pts |-> buildODPoints(cc, RboltOuter, RidOuter)]

\* buildOD(cc, RboltOuter, RidOuter) of jumper.js
CallBuildOD ==
  /\ gen = "jumper" /\ call = Null
  /\ \E cc \in {0, 2000, 4000, 6000}, RboltOuter \in {500, 1000, 2500, 3000},
        RidOuter \in {500, 1000, 2000} :
       call' = [fn |-> "buildOD", args |-> <<cc, RboltOuter, RidOuter>>,
                ret |-> buildODResult(cc, RboltOuter, RidOuter)]
  /\ UNCHANGED pageVars

\* chosenArc(0, 0, r, pStart, pEnd, wantFn) of jumper.js between two points
\* of the circle, wantFn one of the tests of buildOD against a line
CallChosenArc ==
  /\ gen = "jumper" /\ call = Null
  /\ \E r \in {100, 1000}, a0 \in {0, 9000, 18000, 27000}, a1 \in {0, 9000, 18000, 27000},
        side \in {"above", "left"}, ref \in {0, 5000} :
       call' = [fn |-> "chosenArc",
                args |-> <<r, PointAt(0, 0, r, a0), PointAt(0, 0, r, a1), side, ref>>,
                ret |-> chosenArc(0, 0, r, PointAt(0, 0, r, a0), PointAt(0, 0, r, a1),
                                  side, ref)]
  /\ UNCHANGED pageVars

\* sdfRoundedRect(px, py, hw, hh, rr) of flange.js
CallSdfRoundedRect ==
  /\ gen = "flange" /\ call = Null
  /\ \E px \in {-1250, 0, 250, 500, 750, 1000, 1250},
        py \in {-1250, 0, 250, 500, 750, 1000, 1250},
        hw \in {500, 1000}, hh \in {500, 1000}, rr \in {0, 250, 500} :
       call' = [fn |-> "sdfRoundedRect", args |-> <<px, py, hw, hh, rr>>,
                ret |-> sdfRoundedRect(px, py, hw, hh, rr)]
  /\ UNCHANGED pageVars

FnNext ==
  \/ CallFmt
  \/ CallString
  \/ CallBuildOD
  \/ CallChosenArc
  \/ CallSdfRoundedRect

FnSpec == Init /\ [][FnNext]_vars

(***************************************************************************)
(* Properties                                                              *)
(***************************************************************************)
FormGenerators == {"ellipse", "flange", "jumper"}

\* what validateAndPreview would store for the texts now in the form
CurrentSpec ==
  CASE gen = "ellipse" -> EllipseValidation(fields).spec
    [] gen = "flange" -> FlangeValidation(fields, sel).spec
    [] gen = "jumper" -> JumperValidation(fields).spec
    [] OTHER -> Null

\* C1: a DXF is emitted only from a spec produced by a successful validation
\* of the input values current at the download: in ellipse, flange and jumper
\* lastValid, when set, is the spec of the current texts and the export is
\* that lastValid; in firetube the export is the result of the validation
\* run inside the click on the texts of the form.
C1_ExportOnlyFromCurrentValidation ==
  /\ (gen \in FormGenerators /\ lastValid # Null) => lastValid = CurrentSpec
  /\ (gen \in FormGenerators /\ exported # Null) =>
       /\ lastValid # Null
       /\ exported.spec = lastValid
       /\ exported.spec = CurrentSpec
  /\ (gen = "firetube" /\ exported # Null) =>
       LET v == runValidation(fields, sel)
       IN /\ v.thrown = ""
          /\ exported.inputs = v.inputs
          /\ exported.centers = v.centers
          /\ "computeInputs" \in ran

\* C1 witness: an export of a form generator happened
C1_Witness ==
  gen \in FormGenerators /\ lastOp = "download" /\ exported # Null

\* C2: in ellipse, flange and jumper lastValid is null right after every
\* input event (and cutout-type change) and right after every validation
\* that reports an error; it is non-null only from a successful validation
\* up to the next such event.
C2_LastValidLifecycle ==
  gen \in FormGenerators =>
    /\ lastOp \in {"init", "input", "cutoutType"} => lastValid = Null
    /\ (lastOp = "validate" /\ report # <<>>) => lastValid = Null
    /\ (lastOp = "validate" /\ report = <<>>) => lastValid # Null
    /\ lastValid # Null => lastOp \in {"validate", "filename", "download"}

\* C2 witness: a cutout-type change or a failed validation has just
\* invalidated the spec
C2_Witness ==
  /\ gen = "flange"
  /\ lastOp = "cutoutType"
  /\ lastValid = Null
  /\ FlangeValidation(fields, sel).spec # Null

\* the messages of a report, as a set
Messages(seq) == {seq[i] : i \in 1..Len(seq)}

\* {msg} when the constraint is violated
Violated(cond, msg) == IF cond THEN {msg} ELSE {}

\* The constraints of each generator, grouped in the stages in which one
\* validation pass looks at them; each stage is the set of messages of its
\* violated constraints.  A constraint on values that did not parse is not
\* counted as violated.
EllipseStages(f) ==
  LET idL == parseInches(f["idLong"])
      idS == parseInches(f["idShort"])
      cs == parseInches(f["cs"])
  IN << Violated(~(IsFinite(idL) /\ idL > 0), "Long Side ID must be a positive number.")
        \cup Violated(~(IsFinite(idS) /\ idS > 0), "Short Side ID must be a positive number.")
        \cup Violated(~(IsFinite(cs) /\ cs > 0), "Cross Section must be a positive number.")
        \cup Violated(IsFinite(idL) /\ IsFinite(idS) /\ idS > idL,
                      "Short Side ID cannot be larger than Long Side ID.") >>

JumperStages(f) ==
  LET idDia == parseInches(f["idDia"])
      boltDia == parseInches(f["boltDia"])
      cc == parseInches(f["cc"])
      boltEdgeToOD == parseInches(f["boltEdgeToOD"])
      idEdgeToOD == parseInches(f["idEdgeToOD"])
      holes == IsFinite(idDia) /\ IsFinite(boltDia) /\ IsFinite(cc)
      all == holes /\ IsFinite(boltEdgeToOD) /\ IsFinite(idEdgeToOD)
  IN << Violated(~(IsFinite(idDia) /\ idDia > 0),
                 "Center ID Diameter must be a positive number.")
        \cup Violated(~(IsFinite(boltDia) /\ boltDia > 0),
                      "Bolt Hole Diameter must be a positive number.")
        \cup Violated(~(IsFinite(cc) /\ cc > 0),
                      "Bolt Hole Center To Center must be a positive number.")
        \cup Violated(~(IsFinite(boltEdgeToOD) /\ boltEdgeToOD >= 0),
                      "Bolt Hole Edge To OD must be zero or a positive number.")
        \cup Violated(~(IsFinite(idEdgeToOD) /\ idEdgeToOD >= 0),
                      "ID Edge To OD must be zero or a positive number."),
        Violated(IsFinite(boltDia) /\ IsFinite(cc) /\ cc - boltDia <= 0,
                 "Bolt holes are touching/overlapping each other.")
        \cup Violated(holes /\ cc \div 2 - (boltDia \div 2 + idDia \div 2) <= 0,
                      "Bolt holes are touching/overlapping the center ID hole."),
        Violated(all /\ Abs((boltDia \div 2 + boltEdgeToOD) - (idDia \div 2 + idEdgeToOD))
                          >= cc \div 2,
                 ContainedMsg) >>

FlangeStages(f, cutoutType) ==
  LET v == FlangeParsed(f, cutoutType)
      od == IsFinite(v.odX) /\ IsFinite(v.odY) /\ IsFinite(v.cornerR)
      holes == IsFinite(v.bhCCX) /\ IsFinite(v.bhCCY) /\ IsFinite(v.bhDia)
      cutout == IF cutoutType = "circle" THEN IsFinite(v.cutoutDia)
                ELSE IsFinite(v.cutoutX) /\ IsFinite(v.cutoutY) /\ IsFinite(v.cutoutR)
  IN << Messages(FlangeFieldErrors(v, Trim(f["cornerR"]) = <<>>, Trim(f["cutoutR"]) = <<>>)),
        Violated(od /\ holes /\ ~(FlangeHoleODGap(v) > 0),
                 "Bolt holes are touching or outside the OD.")
        \cup Violated(holes /\ ~(v.bhCCX > v.bhDia),
                      "Bolt holes are touching/overlapping each other on X spacing.")
        \cup Violated(holes /\ ~(v.bhCCY > v.bhDia),
                      "Bolt holes are touching/overlapping each other on Y spacing.")
        \cup Violated(od /\ cutout /\ ~(FlangeCutoutODGap(v) > 0),
                      "Center cutout is touching or outside the OD.")
        \cup Violated(holes /\ cutout /\ ~(FlangeHoleCutoutGap(v) > 0),
                      "Bolt holes are touching/overlapping the center cutout.") >>

\* the four side gaps of the firetube pattern, by the label of their report
\* line: (outer - inner) / 2 less the hole radius
SideGaps(f) ==
  LET val(id) == ftParseInches(f[id]).v
      gap(outer, inner) == (val(outer) - val(inner) - val("holeDia")) \div 2
  IN [label \in {"Long Side - Edge Of Hole to OD", "Long Side - Edge Of Hole to ID",
                 "Short Side - Edge Of Hole to OD", "Short Side - Edge Of Hole to ID"} |->
        CASE label = "Long Side - Edge Of Hole to OD" -> gap("odShort", "bcShort")
          [] label = "Long Side - Edge Of Hole to ID" -> gap("bcShort", "idShort")
          [] label = "Short Side - Edge Of Hole to OD" -> gap("odLong", "bcLong")
          [] label = "Short Side - Edge Of Hole to ID" -> gap("bcLong", "idLong")]

\* every dimension of the form parses
AllParse(f) ==
  \A id \in FiretubeFields \ {"holeCount", "crossSection"} : ftParseInches(f[id]).ok

\* firetube: every check that throws is a stage of its own, the four graded
\* gaps are the last stage; f0 is the form at the click
FiretubeStages(f0) ==
  LET f == applyCrossSectionToIDIfPresent(f0).fields
      ok(ids) == \A id \in ids : ftParseInches(f[id]).ok
      val(id) == ftParseInches(f[id]).v
      n == parseInt(f["holeCount"])
      ids == <<"crossSection", "odLong", "odShort", "idLong", "idShort",
               "bcLong", "bcShort", "holeDia">>
  IN [i \in 1..Len(RequiredFields) |->
        Violated(Trim(f0[RequiredFields[i][1]]) = <<>>,
                 RequiredFields[i][2] \o " is required.")]
     \o << Violated(Trim(f0["crossSection"]) = <<>> /\ Trim(f0["idLong"]) = <<>>,
                    "Long Side ID is required."),
           Violated(Trim(f0["crossSection"]) = <<>> /\ Trim(f0["idShort"]) = <<>>,
                    "Short Side ID is required.") >>
     \o [i \in 1..Len(ids) |->
           Violated(Trim(f[ids[i]]) # <<>> /\ ~ok({ids[i]}), ftParseInches(f[ids[i]]).msg)]
     \o << Violated(ok({"odLong", "odShort"}) /\ val("odLong") < val("odShort"),
                    "Long Side OD must be the same as or larger than Short Side OD."),
           Violated(ok({"idLong", "idShort"}) /\ val("idLong") < val("idShort"),
                    "Long Side ID must be the same as or larger than Short Side ID."),
           Violated(ok({"bcLong", "bcShort"}) /\ val("bcLong") < val("bcShort"),
                    "Long Side BC must be the same as or larger than Short Side BC."),
           Violated(ok({"odLong", "odShort", "idLong", "idShort"})
                      /\ ~(val("idLong") < val("odLong") /\ val("idShort") < val("odShort")),
                    "ID must be smaller than OD."),
           Violated(ok({"odLong", "odShort", "bcLong", "bcShort"})
                      /\ ~(val("bcLong") <= val("odLong") /\ val("bcShort") <= val("odShort")),
                    "BC must fit inside OD."),
           Violated(~(IsFinite(n) /\ n >= 1), "Hole count must be greater than zero."),
           Violated(ok({"holeDia"}) /\ val("holeDia") <= 0,
                    "Hole diameter must be greater than zero."),
           Violated(ok({"bcLong", "bcShort", "holeDia"}) /\ IsFinite(n) /\ n >= 1
                      /\ HolesOverlap(obroundPerimeter(val("bcLong"), val("bcShort")),
                                      n, val("holeDia")),
                    OverlapMsg),
           IF AllParse(f)
           THEN {label \in DOMAIN SideGaps(f) : 2 * SideGaps(f)[label] < Scale}
           ELSE {} >>

\* the stages of the generator of this page, for the form as it is
Stages ==
  CASE gen = "ellipse" -> EllipseStages(fields)
    [] gen = "jumper" -> JumperStages(fields)
    [] gen = "flange" -> FlangeStages(fields, sel)
    [] gen = "firetube" -> FiretubeStages(fields)

\* the violations of the first stage that has any
FirstStage(stages) ==
  IF \A i \in 1..Len(stages) : stages[i] = {} THEN {}
  ELSE stages[CHOOSE i \in 1..Len(stages) :
                stages[i] # {} /\ \A j \in 1..(i - 1) : stages[j] = {}]

AllStages(stages) == UNION {stages[i] : i \in 1..Len(stages)}

\* C3 as stated: in every generator one validation pass reports every
\* violated constraint together, all k of them and not only the first.
C3_ReportsEveryViolation ==
  lastOp = "validate" =>
    /\ Messages(report) = AllStages(Stages)
    /\ Len(report) = Cardinality(AllStages(Stages))

\* C3 amended: one validation pass reports together all the violated
\* constraints of the first stage that has a violation, once each, and none
\* of a later stage.
C3_ReportsFirstStage ==
  lastOp = "validate" =>
    /\ Messages(report) = FirstStage(Stages)
    /\ Len(report) = Cardinality(FirstStage(Stages))

\* C3 witness: a flange validation reported two violations of one stage
C3_Witness ==
  /\ gen = "flange"
  /\ lastOp = "validate"
  /\ Len(report) >= 2
  /\ Messages(report) = FirstStage(Stages)

\* the gaps of a flange spec: each bolt hole to the OD, neighbouring bolt
\* holes on X and on Y, the centre cutout to the OD, each bolt hole to the
\* centre cutout
FlangeGaps(v) ==
  LET holeR == v.bhDia \div 2
      holes == Messages(FlangeHoleCenters(v.bhCCX, v.bhCCY))
  IN {gapCircleToRoundedOD(p[1], p[2], holeR, v.odX, v.odY, v.cornerR) : p \in holes}
     \cup {v.bhCCX - v.bhDia, v.bhCCY - v.bhDia}
     \cup (IF v.cutoutType = "circle"
           THEN {gapCircleToRoundedOD(0, 0, v.cutoutDia \div 2, v.odX, v.odY, v.cornerR)}
                \cup {Hypot(p[1], p[2]) - (holeR + v.cutoutDia \div 2) : p \in holes}
           ELSE {gapCircleToRoundedOD(q[1], q[2], 0, v.odX, v.odY, v.cornerR) :
                   q \in Messages(roundedRectPoints(v.cutoutX, v.cutoutY, v.cutoutR))}
                \cup {gapCircleToCenterCutoutRoundedRect(p[1], p[2], holeR, v.cutoutX,
                                                         v.cutoutY, v.cutoutR) : p \in holes})

\* with square corners the gaps to the OD are differences of half widths
FlangeSquareGaps(v) ==
  {v.odX \div 2 - v.bhCCX \div 2 - v.bhDia \div 2,
   v.odY \div 2 - v.bhCCY \div 2 - v.bhDia \div 2}
  \cup (IF v.cutoutType = "circle"
        THEN {v.odX \div 2 - v.cutoutDia \div 2, v.odY \div 2 - v.cutoutDia \div 2}
        ELSE {v.odX \div 2 - v.cutoutX \div 2, v.odY \div 2 - v.cutoutY \div 2})

\* C4: a flange spec is accepted only if every gap (bolt holes to the OD,
\* bolt holes to each other on X and Y, cutout to the OD, bolt holes to the
\* cutout) is strictly positive; a validation of values that pass the basic
\* checks and have a gap of 0 or less ends in an error, never in a warning.
C4_FlangeGapsPositive ==
  /\ (gen = "flange" /\ lastValid # Null) =>
       /\ \A g \in FlangeGaps(lastValid) : g > 0
       /\ lastValid.cornerR = 0 => \A g \in FlangeSquareGaps(lastValid) : g > 0
  /\ (gen = "flange" /\ lastOp = "validate" /\ FlangeStages(fields, sel)[1] = {}
        /\ \E g \in FlangeGaps(FlangeParsed(fields, sel)) : g <= 0) =>
       /\ lastValid = Null
       /\ status = "ERRORS"
       /\ report # <<>>
       /\ warns = <<>>
       /\ ~downloadEnabled

\* C4 witness: a validation rejected a flange whose only fault is a gap of
\* exactly 0
C4_Witness ==
  /\ gen = "flange"
  /\ lastOp = "validate"
  /\ FlangeStages(fields, sel)[1] = {}
  /\ \E g \in FlangeGaps(FlangeParsed(fields, sel)) : g = 0
  /\ \A g \in FlangeGaps(FlangeParsed(fields, sel)) : g >= 0
  /\ lastValid = Null

\* C5 as stated: a jumper spec is accepted only if the gap between the edge
\* of each hole and the OD outline is strictly positive.
C5_JumperEdgeGapsPositive ==
  (gen = "jumper" /\ lastValid # Null) =>
    /\ lastValid.RboltOuter - lastValid.boltDia \div 2 > 0
    /\ lastValid.RidOuter - lastValid.idDia \div 2 > 0

\* C5 amended: a jumper spec is accepted only if the gap between the edge of
\* each hole and the OD outline is zero or positive; the gap is the edge
\* clearance typed into the form, and a hole edge on the outline (gap 0) is
\* accepted.
C5_JumperEdgeGapsNonNegative ==
  (gen = "jumper" /\ lastValid # Null) =>
    /\ lastValid.RboltOuter - lastValid.boltDia \div 2 = parseInches(fields["boltEdgeToOD"])
    /\ lastValid.RidOuter - lastValid.idDia \div 2 = parseInches(fields["idEdgeToOD"])
    /\ lastValid.RboltOuter - lastValid.boltDia \div 2 >= 0
    /\ lastValid.RidOuter - lastValid.idDia \div 2 >= 0

\* C5 witness: a jumper whose hole edges lie on the outline was accepted
C5_Witness ==
  /\ gen = "jumper"
  /\ lastOp = "validate"
  /\ lastValid # Null
  /\ lastValid.RboltOuter = lastValid.boltDia \div 2
  /\ lastValid.RidOuter = lastValid.idDia \div 2

\* a firetube validation has just run on the form: the validate click, or a
\* download click with a CAD name
FiretubeValidated ==
  /\ gen = "firetube"
  /\ lastOp = "validate" \/ (lastOp = "download" /\ HasName(filename))

\* no check of computeInputs throws on the form
NothingThrows(f) ==
  LET stages == FiretubeStages(f)
  IN \A i \in 1..(Len(stages) - 1) : stages[i] = {}

\* C6: on a firetube download click with a non-blank CAD name a DXF is
\* emitted iff validation throws nothing and no side gap is below 0.5;
\* warnings (gaps in [0.5, 1.0)) do not prevent the export, one graded error
\* does.
C6_FiretubeExportIff ==
  (gen = "firetube" /\ lastOp = "download" /\ HasName(filename)) =>
    /\ exported # Null <=>
         /\ NothingThrows(fields)
         /\ \A label \in DOMAIN SideGaps(fields) : SideGaps(fields)[label] >= Scale \div 2
    /\ exported # Null <=> status = "Saved"
    /\ exported # Null <=> "buildDXF" \in ran
    /\ (status = "REPORT" /\ report # <<>>) => exported = Null

\* C6 witness: a DXF was exported although the validation listed warnings
C6_Witness ==
  /\ gen = "firetube"
  /\ lastOp = "download"
  /\ exported # Null
  /\ warns # <<>>
  /\ \E label \in DOMAIN SideGaps(fields) :
       SideGaps(fields)[label] >= Scale \div 2 /\ SideGaps(fields)[label] < Scale

\* C7: each of the four firetube side gaps is listed under errors iff it is
\* below 0.5, under warnings iff it is in [0.5, 1.0), under neither iff it is
\* 1.0 or more, and never under both.
C7_GapGrading ==
  (FiretubeValidated /\ status # "ERROR") =>
    /\ Messages(report) \cup Messages(warns) \subseteq DOMAIN SideGaps(fields)
    /\ \A label \in DOMAIN SideGaps(fields) :
         LET gap == SideGaps(fields)[label]
         IN /\ label \in Messages(report) <=> gap < Scale \div 2
            /\ label \in Messages(warns) <=> (Scale \div 2 <= gap /\ gap < Scale)
            /\ (label \notin Messages(report) /\ label \notin Messages(warns))
                 <=> gap >= Scale
            /\ ~(label \in Messages(report) /\ label \in Messages(warns))

\* C7 witness: one validation graded an error, a warning at exactly 0.5 and
\* a gap that needs no line
C7_Witness ==
  /\ FiretubeValidated
  /\ status # "ERROR"
  /\ \E a, b, c \in DOMAIN SideGaps(fields) :
       /\ SideGaps(fields)[a] < Scale \div 2 /\ a \in Messages(report)
       /\ SideGaps(fields)[b] = Scale \div 2 /\ b \in Messages(warns)
       /\ SideGaps(fields)[c] >= Scale /\ c \notin Messages(report) \cup Messages(warns)

\* the checks before the spacing check pass
EarlierChecksPass(f) ==
  LET stages == FiretubeStages(f)
  IN \A i \in 1..(Len(stages) - 2) : stages[i] = {}

\* P / holeCount <= holeDia with P = 2 * (bcLong - bcShort) + pi * bcShort
SpacingTooSmall(f) ==
  LET bcLong == ftParseInches(f["bcLong"]).v
      bcShort == ftParseInches(f["bcShort"]).v
      P == 2 * (bcLong - bcShort) + (PiNum * bcShort) \div PiDen
  IN P <= ftParseInches(f["holeDia"]).v * parseInt(f["holeCount"])

\* C8: when the firetube inputs pass the earlier checks and
\* P / holeCount <= holeDia, validation fails with the hole-overlap error,
\* computeHoleCenters does not run, no DXF is emitted, and nothing is listed
\* as a warning.
C8_HoleOverlapIsError ==
  (FiretubeValidated /\ EarlierChecksPass(fields) /\ SpacingTooSmall(fields)) =>
    /\ status = "ERROR"
    /\ report = <<OverlapMsg>>
    /\ warns = <<>>
    /\ "computeHoleCenters" \notin ran
    /\ "buildDXF" \notin ran
    /\ exported = Null

\* C8 witness: a download click with a CAD name hit the spacing check
C8_Witness ==
  /\ gen = "firetube"
  /\ lastOp = "download"
  /\ HasName(filename)
  /\ EarlierChecksPass(fields)
  /\ SpacingTooSmall(fields)
  /\ report = <<OverlapMsg>>

\* the bolt holes of an exported spec, as <<x, y, radius>>
ExportedHoles ==
  CASE gen = "firetube" ->
         [i \in 1..Len(exported.centers) |->
            <<exported.centers[i][1], exported.centers[i][2], exported.inputs.holeDia \div 2>>]
    [] gen = "flange" ->
         LET c == FlangeHoleCenters(exported.spec.bhCCX, exported.spec.bhCCY)
         IN [i \in 1..Len(c) |-> <<c[i][1], c[i][2], exported.spec.bhDia \div 2>>]
    [] gen = "jumper" ->
         << <<-(exported.spec.cc \div 2), 0, exported.spec.boltDia \div 2>>,
            <<exported.spec.cc \div 2, 0, exported.spec.boltDia \div 2>> >>
    [] OTHER -> <<>>

\* distance(centres) - (r1 + r2) > 0, compared on the squares
Apart(h1, h2) ==
  (h1[1] - h2[1]) * (h1[1] - h2[1]) + (h1[2] - h2[2]) * (h1[2] - h2[2])
    > (h1[3] + h2[3]) * (h1[3] + h2[3])

\* C9 as stated: in every exported spec of any generator every two distinct
\* bolt holes are apart: the straight-line distance of their centres less
\* the sum of their radii is strictly positive.
C9_ExportedHolesApart ==
  exported # Null =>
    \A i, j \in 1..Len(ExportedHoles) :
      i # j => Apart(ExportedHoles[i], ExportedHoles[j])

\* the jumper form as parsed
JumperParsed(f) == [id \in JumperFields |-> parseInches(f[id])]

\* the holes of the jumper do not collide
NoCollision(p) ==
  /\ p["cc"] > p["boltDia"]
  /\ p["cc"] \div 2 > p["boltDia"] \div 2 + p["idDia"] \div 2

\* cc/2 <= |RboltOuter - RidOuter|
OuterCircleContained(p) ==
  p["cc"] \div 2 <= Abs((p["boltDia"] \div 2 + p["boltEdgeToOD"])
                        - (p["idDia"] \div 2 + p["idEdgeToOD"]))

\* what the claim promises of a validation that meets a contained circle
ContainedOutcome ==
  /\ report = <<ContainedMsg>>
  /\ ContainedMsg \notin {"Bolt holes are touching/overlapping each other.",
                          "Bolt holes are touching/overlapping the center ID hole."}
  /\ status = "ERRORS"
  /\ lastValid = Null
  /\ ~downloadEnabled
  /\ "buildOD" \notin ran

\* C10 as stated: when all jumper fields parse, the holes do not collide and
\* cc/2 <= |RboltOuter - RidOuter|, validation fails with the
\* contained-circle message, lastValid is null, the download button is
\* disabled and buildOD is not called.
C10_ContainedCircleReported ==
  LET p == JumperParsed(fields)
  IN (gen = "jumper" /\ lastOp = "validate"
        /\ (\A id \in JumperFields : IsFinite(p[id]))
        /\ NoCollision(p) /\ OuterCircleContained(p)) => ContainedOutcome

\* C10 amended: when all jumper fields parse to values in range (the three
\* sizes positive, the two edge clearances zero or more), the holes do not
\* collide and cc/2 <= |RboltOuter - RidOuter|, validation fails with the
\* contained-circle message, lastValid is null, the download button is
\* disabled and buildOD is not called.
C10_ContainedCircleReportedInRange ==
  LET p == JumperParsed(fields)
  IN (gen = "jumper" /\ lastOp = "validate"
        /\ (\A id \in JumperFields : IsFinite(p[id]))
        /\ p["idDia"] > 0 /\ p["boltDia"] > 0 /\ p["cc"] > 0
        /\ p["boltEdgeToOD"] >= 0 /\ p["idEdgeToOD"] >= 0
        /\ NoCollision(p) /\ OuterCircleContained(p)) => ContainedOutcome

\* C10 witness: a validation met outer circles that are internally tangent
C10_Witness ==
  LET p == JumperParsed(fields)
  IN /\ gen = "jumper"
     /\ lastOp = "validate"
     /\ \A id \in JumperFields : IsFinite(p[id])
     /\ p["idDia"] > 0
     /\ NoCollision(p)
     /\ p["cc"] \div 2 = Abs((p["boltDia"] \div 2 + p["boltEdgeToOD"])
                             - (p["idDia"] \div 2 + p["idEdgeToOD"]))
     /\ report = <<ContainedMsg>>

(***************************************************************************)
(* The exported DXF text.                                                  *)
(***************************************************************************)
\* a line break stands exactly between neighbouring pieces of the text
Alternating(text) ==
  /\ Len(text) % 2 = 1
  /\ \A i \in 1..Len(text) : (text[i] = "\n") <=> (i % 2 = 0)

\* text.split("\n"): the lines of a text; when line breaks and other pieces
\* alternate every other piece is a line of its own
Lines(text) ==
  IF Alternating(text) THEN [k \in 1..((Len(text) + 1) \div 2) |-> text[2 * k - 1]]
  ELSE [k \in 1..Len(Split(text, "\n")) |-> Concat(Split(text, "\n")[k])]

\* the lines of the exported file
ExportedLines == Lines(exported.dxf)

\* the decimal numerals of the DXF group codes, -5 .. 1071
GroupCodes ==
  {Concat(NatText(n)) : n \in 0..1071} \cup {"-" \o Concat(NatText(n)) : n \in 1..5}

\* the lines read two by two: <<group code, value>>
Pairs(lines) == [k \in 1..(Len(lines) \div 2) |-> <<lines[2 * k - 1], lines[2 * k]>>]

\* the values of the pairs with group code 0 that open or close a section
\* or a table, or end the file, in file order
Delimiters(pairs) ==
  LET IsDelimiter(p) ==
        p[1] = "0" /\ p[2] \in {"SECTION", "ENDSEC", "TABLE", "ENDTAB", "EOF"}
      found == SelectSeq(pairs, IsDelimiter)
  IN [i \in 1..Len(found) |-> found[i][2]]

\* the pair that follows each <<"0", word>> pair, in file order
After(pairs, word) ==
  LET IsWord(k) == pairs[k] = <<"0", word>>
      at == SelectSeq([k \in 1..(Len(pairs) - 1) |-> k], IsWord)
  IN [i \in 1..Len(at) |-> pairs[at[i] + 1]]

\* the R12 grammar of the claim, for the lines of one file
WellFormedDXF(lines) ==
  /\ Len(lines) % 2 = 0
  /\ \A k \in 1..Len(lines) : k % 2 = 1 => lines[k] \in GroupCodes
  /\ Delimiters(Pairs(lines)) =
       <<"SECTION", "ENDSEC", "SECTION", "TABLE", "ENDTAB", "ENDSEC", "SECTION", "ENDSEC",
         "EOF">>
  /\ After(Pairs(lines), "SECTION") = << <<"2", "HEADER">>, <<"2", "TABLES">>, <<"2", "ENTITIES">> >>
  /\ After(Pairs(lines), "TABLE") = << <<"2", "LAYER">> >>
  /\ Len(lines) >= 2 /\ lines[Len(lines) - 1] = "0" /\ lines[Len(lines)] = "EOF"

\* C11 as stated: every exported DXF text of the ellipse, flange, jumper and
\* firetube serializers consists of (group code, value) line pairs with an
\* integer group code, has the sections HEADER, TABLES, ENTITIES in this
\* order, each opened by SECTION and closed by ENDSEC, one LAYER table
\* closed by one ENDTAB, and ends with EOF
C11_ExportedDXFWellFormed ==
  exported # Null => WellFormedDXF(ExportedLines)

\* C11 for the three serializers that share dxfHeader, dxfPolyline, dxfCircle
\* and dxfFooter: their exported text does follow the grammar
C11_FormExportsWellFormed ==
  (gen \in FormGenerators /\ exported # Null) => WellFormedDXF(ExportedLines)

\* the names of the layer records: the lines "0", "LAYER", "2", name
LayerRecords(lines) ==
  LET IsRecord(i) == lines[i] = "0" /\ lines[i + 1] = "LAYER" /\ lines[i + 2] = "2"
      at == SelectSeq([i \in 1..(Len(lines) - 3) |-> i], IsRecord)
  IN [k \in 1..Len(at) |-> lines[at[k] + 3]]

\* the lines at which an entity of one of the kinds starts: "0", kind
EntityStarts(lines, kinds) ==
  LET IsStart(i) == lines[i] = "0" /\ lines[i + 1] \in kinds
  IN SelectSeq([i \in 1..(Len(lines) - 1) |-> i], IsStart)

\* <<kind, layer>> of the entities other than vertices, in file order
Entities(lines) ==
  LET at == EntityStarts(lines, {"POLYLINE", "LINE", "ARC", "CIRCLE"})
  IN [k \in 1..Len(at) |-> <<lines[at[k] + 1], lines[at[k] + 3]>>]

\* every vertex is on the layer of the polyline it belongs to, the last one
\* that starts before it
VerticesFollowPolyline(lines) ==
  LET polylines == Range(EntityStarts(lines, {"POLYLINE"}))
      vertices == Range(EntityStarts(lines, {"VERTEX"}))
  IN \A i \in vertices :
       \E j \in polylines :
         /\ j < i
         /\ \A k \in polylines : k < i => k <= j
         /\ lines[i + 3] = lines[j + 3]

\* the features each generator draws, outer boundary first, with the layer the
\* claim gives them; n bolt holes for the firetube
FeatureLayers(g, cutoutType, n) ==
  CASE g = "ellipse" -> << <<"POLYLINE", "Perimeter">>, <<"POLYLINE", "Holes">> >>
    [] g = "jumper" -> << <<"POLYLINE", "Perimeter">> >> \o [k \in 1..3 |-> <<"CIRCLE", "Holes">>]
    [] g = "flange" ->
         << <<"POLYLINE", "Perimeter">> >> \o [k \in 1..4 |-> <<"CIRCLE", "Holes">>]
         \o << <<IF cutoutType = "circle" THEN "CIRCLE" ELSE "POLYLINE", "Holes">> >>
    [] g = "firetube" ->
         << <<"LINE", "Perimeter">>, <<"LINE", "Perimeter">>,
            <<"ARC", "Perimeter">>, <<"ARC", "Perimeter">>,
            <<"LINE", "Holes">>, <<"LINE", "Holes">>, <<"ARC", "Holes">>, <<"ARC", "Holes">> >>
         \o [k \in 1..n |-> <<"CIRCLE", "Holes">>]

\* the features of the exported spec
ExportedFeatures ==
  FeatureLayers(gen, IF gen = "flange" THEN exported.spec.cutoutType ELSE "",
                IF gen = "firetube" THEN exported.inputs.holeCount ELSE 0)

\* C12: every exported DXF has exactly the two layer records Perimeter and
\* Holes; every POLYLINE, VERTEX, LINE, ARC and CIRCLE is followed by group
\* code 8 and one of the two names; the entities of the outer boundary are
\* on Perimeter and those of the ID outline, the centre cutout and the bolt
\* holes on Holes.  Records and entities are read off consecutive lines
\* ("0", "LAYER", "2", name and "0", kind, "8", layer).
C12_LayersOfExport ==
  exported # Null =>
    LET lines == ExportedLines
    IN /\ LayerRecords(lines) = <<"Perimeter", "Holes">>
       /\ \A i \in Range(EntityStarts(lines, {"POLYLINE", "VERTEX", "LINE", "ARC", "CIRCLE"})) :
            /\ lines[i + 2] = "8"
            /\ lines[i + 3] \in {"Perimeter", "Holes"}
       /\ Entities(lines) = ExportedFeatures
       /\ VerticesFollowPolyline(lines)

\* C12 witness: a flange with a square cutout was exported, a file with a
\* polyline on each layer
C12_Witness ==
  /\ gen = "flange"
  /\ exported # Null
  /\ exported.spec.cutoutType = "square"
  /\ Entities(ExportedLines)[6] = <<"POLYLINE", "Holes">>

\* <<layer, x, y, radius>> of the CIRCLE entities, in file order
Circles(lines) ==
  LET at == EntityStarts(lines, {"CIRCLE"})
  IN [k \in 1..Len(at) |->
        <<lines[at[k] + 3], lines[at[k] + 5], lines[at[k] + 7], lines[at[k] + 11]>>]

\* <<layer, value of group 70>> of the POLYLINE entities: "1" is closed
Polylines(lines) ==
  LET at == EntityStarts(lines, {"POLYLINE"})
  IN [k \in 1..Len(at) |-> <<lines[at[k] + 3], lines[at[k] + 7]>>]

\* the four bolt holes of the flange spec v as CIRCLE entities on Holes
FlangeHoleCircles(v) ==
  {<<"Holes", String(sx * (v.bhCCX \div 2)), String(sy * (v.bhCCY \div 2)),
     String(v.bhDia \div 2)>> : sx \in {-1, 1}, sy \in {-1, 1}}

\* the form holds odX = odY = 5, cornerR = 0.5, bhDia = 0.5,
\* bhCCX = bhCCY = 3.5 and a circle cutout of diameter 3.0
FlangeExample ==
  /\ gen = "flange"
  /\ sel = "circle"
  /\ parseInches(fields["odX"]) = 5 * Scale
  /\ parseInches(fields["odY"]) = 5 * Scale
  /\ parseInches(fields["cornerR"]) = Scale \div 2
  /\ parseInches(fields["bhDia"]) = Scale \div 2
  /\ parseInches(fields["bhCCX"]) = (7 * Scale) \div 2
  /\ parseInches(fields["bhCCY"]) = (7 * Scale) \div 2
  /\ parseInches(fields["cutoutDia"]) = 3 * Scale

\* C13: a flange export with a circle cutout holds exactly one closed
\* POLYLINE, on Perimeter, and exactly five CIRCLEs on Holes: the four bolt
\* holes of radius bhDia/2 at (+-bhCCX/2, +-bhCCY/2) and the cutout of radius
\* cutoutDia/2 at the origin; with a square cutout it holds exactly two
\* closed POLYLINEs, one on Perimeter and one on Holes, and the four bolt
\* hole CIRCLEs; and the input odX = odY = 5, cornerR = 0.5, bhDia = 0.5,
\* bhCCX = bhCCY = 3.5, circle cutout 3.0 validates with no error
C13_FlangeEntities ==
  /\ (gen = "flange" /\ exported # Null) =>
       LET lines == ExportedLines
           v == exported.spec
       IN IF v.cutoutType = "circle"
          THEN /\ Polylines(lines) = << <<"Perimeter", "1">> >>
               /\ Len(Circles(lines)) = 5
               /\ Range(Circles(lines)) =
                    FlangeHoleCircles(v) \cup {<<"Holes", "0", "0", String(v.cutoutDia \div 2)>>}
          ELSE /\ Polylines(lines) = << <<"Perimeter", "1">>, <<"Holes", "1">> >>
               /\ Len(Circles(lines)) = 4
               /\ Range(Circles(lines)) = FlangeHoleCircles(v)
  /\ (FlangeExample /\ lastOp = "validate") =>
       /\ report = <<>>
       /\ status = "OK"
       /\ lastValid # Null

\* C13 witness: the example input was validated and exported: five circles
C13_Witness ==
  /\ FlangeExample
  /\ exported # Null
  /\ Len(Circles(ExportedLines)) = 5
  /\ Len(Polylines(ExportedLines)) = 1

(***************************************************************************)
(* The parsers.                                                            *)
(***************************************************************************)
\* the fields of the open page whose text goes through parseInches
ParsedFields == DOMAIN fields \ {"holeCount"}

\* the value the page's parseInches gives a text, NaN when it returns NaN
\* (ellipse, flange, jumper) or throws (firetube)
Parsed(t) ==
  IF gen = "firetube" THEN (IF ftParseInches(t).ok THEN ftParseInches(t).v ELSE NaN)
  ELSE parseInches(t)

\* the numeric tokens of a text: its runs of characters between spaces,
\* hyphens and slashes
Tokens(t) ==
  LET NonEmpty(p) == p # <<>>
  IN SelectSeq(Split([i \in 1..Len(t) |-> IF t[i] \in {"-", "/"} THEN " " ELSE t[i]], " "),
               NonEmpty)

\* the text after the slash of a fraction is a number equal to 0
ZeroDenominator(t) ==
  /\ Len(Split(t, "/")) = 2
  /\ IsFinite(UnsignedNumber(Trim(Split(t, "/")[2])))
  /\ UnsignedNumber(Trim(Split(t, "/")[2])) = 0

\* the texts the claim wants rejected
Malformed(t) ==
  \/ Trim(t) = <<>>
  \/ Trim(t) = <<"-">>
  \/ ZeroDenominator(t)
  \/ \E k \in 1..Len(Tokens(t)) : ~IsFinite(UnsignedNumber(Tokens(t)[k]))

\* C14 as stated: in every generator parseInches rejects (returns NaN or
\* throws, never a number) a text that is empty after trimming, that is the
\* single character "-", whose fraction has the denominator 0, or one of
\* whose numeric tokens is not a number
C14_MalformedTextRejected ==
  \A f \in ParsedFields : Malformed(fields[f]) => ~IsFinite(Parsed(fields[f]))

\* the text is "N/D": two runs of digits around one slash, D not 0
PlainFraction(t) ==
  LET q == Split(t, "/")
  IN /\ Len(q) = 2
     /\ q[1] # <<>> /\ AllDigits(q[1])
     /\ q[2] # <<>> /\ AllDigits(q[2])
     /\ DigitsVal(q[2]) # 0

\* N / D of the text "N/D"
FractionValue(t) == (DigitsVal(Split(t, "/")[1]) * Scale) \div DigitsVal(Split(t, "/")[2])

\* the trimmed text is "W-N/D": a run of digits, one hyphen, a fraction
HyphenMixed(t) ==
  LET p == Split(Trim(t), "-")
  IN Len(p) = 2 /\ p[1] # <<>> /\ AllDigits(p[1]) /\ PlainFraction(p[2])

\* C15 as stated: every parser, the firetube parser included, reads "W-N/D"
\* as W + N/D, the same value as "W N/D"; reads "N/D" as N/D; and ignores
\* white space around the text
C15_HyphenAndFractionAccepted ==
  \A f \in ParsedFields :
    LET t == fields[f]
        p == Split(Trim(t), "-")
    IN /\ HyphenMixed(t) =>
            /\ Parsed(t) = DigitsVal(p[1]) * Scale + FractionValue(p[2])
            /\ Parsed(t) = Parsed(p[1] \o <<" ">> \o p[2])
       /\ PlainFraction(Trim(t)) => Parsed(t) = FractionValue(Trim(t))
       /\ Parsed(<<" ">> \o t \o <<" ">>) = Parsed(t)

\* the same for the parser of the ellipse, flange and jumper pages alone
C15_FormParsersAccept ==
  gen \in FormGenerators => C15_HyphenAndFractionAccepted

(***************************************************************************)
(* The dimensions of an exportable spec.                                   *)
(***************************************************************************)
\* every value of the set is a number above 0
AllPositive(S) == \A x \in S : IsFinite(x) /\ x > 0

\* every value of the set is a number, 0 allowed
NoneNegative(S) == \A x \in S : IsFinite(x) /\ x >= 0

\* the diameters, rectangle sizes, spacings and cross section of a spec of
\* the ellipse, flange or jumper page
FormDimensions(v) ==
  CASE gen = "ellipse" -> {v.idL, v.idS, v.cs, v.odL, v.odS}
    [] gen = "jumper" -> {v.idDia, v.boltDia, v.cc, 2 * v.RboltOuter, 2 * v.RidOuter}
    [] gen = "flange" ->
         {v.odX, v.odY, v.bhDia, v.bhCCX, v.bhCCY}
         \cup (IF v.cutoutType = "circle" THEN {v.cutoutDia} ELSE {v.cutoutX, v.cutoutY})

\* the corner radii and jumper edge clearances of a spec
FormRadiiAndClearances(v) ==
  CASE gen = "jumper" -> {v.boltEdgeToOD, v.idEdgeToOD}
    [] gen = "flange" -> {v.cornerR} \cup (IF v.cutoutType = "circle" THEN {} ELSE {v.cutoutR})
    [] OTHER -> {}

\* the diameters of a firetube export
FiretubeDimensions(in) ==
  {in.odLong, in.odShort, in.idLong, in.idShort, in.bcLong, in.bcShort, in.holeDia}

\* C16 as stated: in every exportable spec every diameter and rectangle
\* dimension (OD, ID, bolt circle, hole diameter, cutout size, center-to-
\* center spacing, cross section) is above 0; corner radii and jumper edge
\* clearances are the only values that may be 0
C16_DimensionsPositive ==
  /\ (gen \in FormGenerators /\ lastValid # Null) =>
        AllPositive(FormDimensions(lastValid)) /\ NoneNegative(FormRadiiAndClearances(lastValid))
  /\ (gen = "firetube" /\ exported # Null) => AllPositive(FiretubeDimensions(exported.inputs))

\* the same for the ellipse, flange and jumper pages alone
C16_FormDimensionsPositive ==
  gen \in FormGenerators => C16_DimensionsPositive

(***************************************************************************)
(* The corner radii of the flange.                                         *)
(***************************************************************************)
\* r lies in [0, min(w, h) / 2]
RadiusInRange(r, w, h) == IsFinite(r) /\ 0 <= r /\ 2 * r <= Min(w, h)

\* the radius typed into a field of the form: 0 when the field is blank
TypedRadius(id) == IF Trim(fields[id]) = <<>> THEN 0 ELSE parseInches(fields[id])

\* a radius was typed that is a number outside [0, min(w, h) / 2] of the
\* two sizes typed next to it
RadiusOutOfRange(id, w, h) ==
  /\ IsFinite(parseInches(fields[w])) /\ parseInches(fields[w]) > 0
  /\ IsFinite(parseInches(fields[h])) /\ parseInches(fields[h]) > 0
  /\ IsFinite(TypedRadius(id))
  /\ ~RadiusInRange(TypedRadius(id), parseInches(fields[w]), parseInches(fields[h]))

\* C17: an accepted flange spec has cornerR in [0, min(odX, odY) / 2] and,
\* with a square cutout, cutoutR in [0, min(cutoutX, cutoutY) / 2]; the
\* radius is the one typed, 0 for a blank field; validating a radius outside
\* its range leaves no spec and reports the radius as too large
C17_FlangeRadiiInRange ==
  gen = "flange" =>
    /\ lastValid # Null =>
          /\ RadiusInRange(lastValid.cornerR, lastValid.odX, lastValid.odY)
          /\ lastValid.cornerR = TypedRadius("cornerR")
          /\ lastValid.cutoutType = "square" =>
                /\ RadiusInRange(lastValid.cutoutR, lastValid.cutoutX, lastValid.cutoutY)
                /\ lastValid.cutoutR = TypedRadius("cutoutR")
    /\ (lastOp = "validate" /\ RadiusOutOfRange("cornerR", "odX", "odY")) =>
          /\ lastValid = Null
          /\ "Corner Radius is too large for the OD." \in Range(report)
    /\ (lastOp = "validate" /\ sel = "square"
          /\ RadiusOutOfRange("cutoutR", "cutoutX", "cutoutY")) =>
          /\ lastValid = Null
          /\ "Center Cutout Corner Radius is too large for the cutout." \in Range(report)

\* a flange with a blank corner radius and a square cutout with a typed
\* radius is accepted
C17_Witness ==
  /\ gen = "flange" /\ lastValid # Null
  /\ lastValid.cutoutType = "square"
  /\ Trim(fields["cornerR"]) = <<>> /\ lastValid.cornerR = 0
  /\ lastValid.cutoutR > 0

\* a validation has rejected a cutout radius out of range
C17_WitnessRejected ==
  /\ gen = "flange" /\ lastOp = "validate" /\ sel = "square"
  /\ RadiusOutOfRange("cutoutR", "cutoutX", "cutoutY")
  /\ lastValid = Null

(***************************************************************************)
(* Long and short sides.                                                   *)
(***************************************************************************)
\* the texts of a long and a short field are numbers, the short one larger
ShortOverLong(f, long, short) ==
  IF gen = "firetube"
  THEN /\ ftParseInches(f[long]).ok /\ ftParseInches(f[short]).ok
       /\ ftParseInches(f[short]).v > ftParseInches(f[long]).v
  ELSE /\ IsFinite(parseInches(f[long])) /\ IsFinite(parseInches(f[short]))
       /\ parseInches(f[short]) > parseInches(f[long])

\* the (long, short) pairs of fields of the open page
SidePairs ==
  CASE gen = "ellipse" -> {<<"idLong", "idShort">>}
    [] gen = "firetube" ->
         {<<"odLong", "odShort">>, <<"idLong", "idShort">>, <<"bcLong", "bcShort">>}
    [] OTHER -> {}

\* some pair of the form has its short side larger than its long side
SomeShortOverLong(f) == \E p \in SidePairs : ShortOverLong(f, p[1], p[2])

\* the long side of every pair of an accepted spec is at least the short side
AcceptedLongNotShorter ==
  /\ (gen = "ellipse" /\ lastValid # Null) =>
        lastValid.idL >= lastValid.idS /\ lastValid.odL >= lastValid.odS
  /\ (gen = "firetube" /\ exported # Null) =>
        /\ exported.inputs.odLong >= exported.inputs.odShort
        /\ exported.inputs.idLong >= exported.inputs.idShort
        /\ exported.inputs.bcLong >= exported.inputs.bcShort
  /\ (gen = "firetube" /\ lastOp \in {"validate", "download"} /\ status # "ERROR") =>
        ~SomeShortOverLong(fields)

\* the sides of an accepted spec are the typed ones, side by side
SidesAsTyped ==
  /\ (gen = "ellipse" /\ lastValid # Null) =>
        /\ lastValid.idL = parseInches(fields["idLong"])
        /\ lastValid.idS = parseInches(fields["idShort"])
  /\ (gen = "firetube" /\ exported # Null) =>
        \A id \in {"odLong", "odShort", "idLong", "idShort", "bcLong", "bcShort"} :
           exported.inputs[id] = ftParseInches(fields[id]).v

\* after a validation of texts with a short side over its long side there
\* is an error and no spec, and nothing is exported
ShortOverLongRejected ==
  (lastOp \in {"validate", "download"} /\ SomeShortOverLong(fields)) =>
     /\ exported = Null
     /\ gen = "ellipse" =>
           /\ lastValid = Null
           /\ lastOp = "validate" =>
                 "Short Side ID cannot be larger than Long Side ID." \in Range(report)
     /\ gen = "firetube" => status = "ERROR" /\ report # <<>>

\* C18: an accepted ellipse or firetube spec has long >= short for each of
\* its pairs (OD, ID, firetube BC); when a short side is entered larger than
\* its long side the validation fails with an error, and the two values are
\* never swapped: an accepted spec carries the sides as typed
C18_LongNotShorterThanShort ==
  AcceptedLongNotShorter /\ SidesAsTyped /\ ShortOverLongRejected

\* the ellipse page has validated a short side over its long side, and
\* rejected it
C18_Witness ==
  /\ gen = "ellipse" /\ lastOp = "validate"
  /\ ShortOverLong(fields, "idLong", "idShort")
  /\ IsFinite(parseInches(fields["cs"])) /\ parseInches(fields["cs"]) > 0
  /\ lastValid = Null

\* the firetube page has validated a short bolt circle side over its long
\* side, and rejected it
C18_WitnessFiretube ==
  /\ gen = "firetube" /\ lastOp = "validate"
  /\ ShortOverLong(fields, "bcLong", "bcShort")
  /\ ~ShortOverLong(fields, "odLong", "odShort")
  /\ Trim(fields["odLong"]) # <<>>
  /\ status = "ERROR"

(***************************************************************************)
(* The cross section.                                                      *)
(***************************************************************************)
\* the pages with a cross-section input, and the name of that field
CrossSectionField == CASE gen = "ellipse" -> "cs" [] gen = "firetube" -> "crossSection"

\* the accepted spec of a page with a cross-section input: lastValid of the
\* ellipse page, the inputs of a firetube export
AcceptedSides ==
  CASE gen = "ellipse" /\ lastValid # Null ->
         [odLong |-> lastValid.odL, odShort |-> lastValid.odS,
          idLong |-> lastValid.idL, idShort |-> lastValid.idS]
    [] gen = "firetube" /\ exported # Null ->
         [odLong |-> exported.inputs.odLong, odShort |-> exported.inputs.odShort,
          idLong |-> exported.inputs.idLong, idShort |-> exported.inputs.idShort]
    [] OTHER -> Null

\* OD = ID + 2 * cross section on both axes, for the cross section typed
ODIsIDPlusCrossSection(v, cs) ==
  /\ IsFinite(cs)
  /\ v.odLong = v.idLong + 2 * cs
  /\ v.odShort = v.idShort + 2 * cs

\* the page has a field in which an OD is typed
HasODField == {"odLong", "odShort"} \cap DOMAIN fields # {}

\* C19 as stated: in every generator with a cross-section input the OD of an
\* accepted spec is ID + 2 * cross section on both axes, and it is computed
\* from the ID and the cross section: the page has no field an OD is read from
C19_ODComputedFromID ==
  AcceptedSides # Null =>
    /\ ODIsIDPlusCrossSection(AcceptedSides, Parsed(fields[CrossSectionField]))
    /\ ~HasODField

\* the same for the ellipse page alone
C19_EllipseODComputedFromID ==
  gen = "ellipse" => C19_ODComputedFromID

\* the firetube page: the OD of an export is the typed one, and when a cross
\* section is typed the ID is OD - 2 * cross section
C19_FiretubeIDFromOD ==
  (gen = "firetube" /\ exported # Null) =>
    /\ exported.inputs.odLong = Parsed(fields["odLong"])
    /\ exported.inputs.odShort = Parsed(fields["odShort"])
    /\ Trim(fields["crossSection"]) # <<>> =>
          ODIsIDPlusCrossSection(AcceptedSides, Parsed(fields["crossSection"]))

(***************************************************************************)
(* The holes along the bolt circle of the firetube.                        *)
(***************************************************************************)
\* what two lengths may differ by and count as equal: 0.01 inch
Tolerance == Scale \div 100

Near(a, b) == Abs(a - b) <= Tolerance

\* the direction of (x, y) from the origin in hundredths of a degree,
\* 0..36000, read from the smaller of the two coordinates
Direction(x, y) ==
  LET h == Hypot(x, y)
      steep == 9000 - AcosC(Abs(y), h)
      flat == 9000 - AcosC(Abs(x), h)
      first == IF Abs(y) <= Abs(x) THEN steep ELSE 9000 - flat
  IN IF x >= 0 /\ y >= 0 THEN first
     ELSE IF x < 0 /\ y >= 0 THEN 18000 - first
     ELSE IF x < 0 THEN 18000 + first
     ELSE 36000 - first

\* the length of an arc of radius r over a hundredths of a degree
ArcLength(r, a) == (PiTimes(r) * a) \div 18000

\* the point lies on the obround L x W: on one of the two straight sides,
\* or at the distance W / 2 from the centre of an end
OnObround(p, L, W) ==
  LET r == W \div 2
      cx == (L - W) \div 2
  IN IF Abs(p[1]) <= cx THEN Near(Abs(p[2]), r)
     ELSE Near(Hypot(Abs(p[1]) - cx, p[2]), r)

\* the arc length at which a point of the obround L x W lies, measured
\* counter-clockwise from (L / 2, 0)
ArcLengthAt(p, L, W) ==
  LET r == W \div 2
      straight == L - W
      cx == straight \div 2
      quarter == PiTimes(r) \div 2
      semi == PiTimes(r)
  IN IF p[1] >= cx
     THEN (IF p[2] >= 0 THEN ArcLength(r, Direction(p[1] - cx, p[2]))
           ELSE quarter + 2 * straight + semi
                + ArcLength(r, Direction(p[1] - cx, p[2]) - 27000))
     ELSE IF p[1] <= -cx
     THEN quarter + straight + ArcLength(r, Direction(p[1] + cx, p[2]) - 9000)
     ELSE IF p[2] >= 0 THEN quarter + (cx - p[1])
     ELSE quarter + straight + semi + (p[1] + cx)

\* two arc lengths of a closed boundary of length P are equal
NearAlong(a, b, P) == Near((a - b) % P, 0) \/ Near((a - b) % P, P)

\* the centres are N points of the obround, the i-th at (i - 1) * P / N +
\* shift along it, neighbours (the last and the first included) P / N apart
PlacedAlongBoltCircle(centers, in) ==
  LET L == in.bcLong
      W == in.bcShort
      N == in.holeCount
      P == obroundPerimeter(L, W)
      shift == IF in.centerMode = "off" THEN P \div (2 * N) ELSE 0
      at == [i \in 1..Len(centers) |-> ArcLengthAt(centers[i], L, W)]
  IN /\ Len(centers) = N
     /\ \A i \in 1..N : OnObround(centers[i], L, W)
     /\ \A i \in 1..N : NearAlong(at[i], ((i - 1) * P) \div N + shift, P)
     /\ \A i \in 1..N : NearAlong(at[(i % N) + 1] - at[i], P \div N, P)
     /\ in.centerMode = "on" => centers[1] = <<L \div 2, 0>>

\* the CIRCLE entities of the export: one per centre, radius holeDia / 2
HoleCircles(centers, in) ==
  [i \in 1..in.holeCount |->
     <<"Holes", fmt(centers[i][1]), fmt(centers[i][2]), fmt(in.holeDia \div 2)>>]

\* C20: for an accepted firetube spec computeHoleCenters returns exactly
\* holeCount centres, the i-th at arc length i * P / N + shift along the
\* bolt-circle obround (shift 0 on centre, with the first hole at
\* (bcLong / 2, 0); P / (2N) off centre), neighbours P / N apart along the
\* boundary, every centre on the obround, and the exported DXF has exactly
\* holeCount CIRCLEs of radius holeDia / 2
C20_HolesAlongBoltCircle ==
  (gen = "firetube" /\ exported # Null) =>
    /\ exported.centers = computeHoleCenters(exported.inputs).centers
    /\ PlacedAlongBoltCircle(exported.centers, exported.inputs)
    /\ Circles(ExportedLines) = HoleCircles(exported.centers, exported.inputs)

\* an off-centre pattern of MaxHoleCount holes on a bolt circle with straight
\* sides has been exported
C20_Witness ==
  /\ gen = "firetube" /\ exported # Null
  /\ exported.inputs.centerMode = "off"
  /\ exported.inputs.bcLong > exported.inputs.bcShort
  /\ exported.inputs.holeCount = MaxHoleCount

(***************************************************************************)
(* The download button and lastValid of the ellipse, flange and jumper     *)
(* pages.                                                                  *)
(***************************************************************************)
\* C28: on the ellipse, flange and jumper pages, in every state reached by
\* input edits, validate clicks, filename edits and download clicks, the
\* download button is enabled exactly when lastValid is not null and the
\* trimmed filename is not empty
C28_DownloadEnabledIff ==
  gen \in FormGenerators => (downloadEnabled <=> (lastValid # Null /\ HasName(filename)))

\* a filename edit has enabled the button of a validated form
C28_Witness ==
  /\ gen \in FormGenerators /\ lastOp = "filename"
  /\ downloadEnabled /\ lastValid # Null /\ HasName(filename)

\* a step of a download click or a filename edit keeps lastValid, and a
\* download click that follows an export exports the same file again
DownloadKeepsLastValid ==
  (gen \in FormGenerators /\ lastOp' \in {"download", "filename"}) =>
     /\ lastValid' = lastValid
     /\ (exported # Null /\ lastOp' = "download") => exported' = exported

\* C29: on the ellipse, flange and jumper pages a download click (exporting,
\* or refused for a blank name or a null lastValid) and a filename edit leave
\* lastValid unchanged; after an export the same spec is exported again by
\* the next click, with no validation in between
C29_DownloadAndFilenameKeepLastValid == [][DownloadKeepsLastValid]_vars

\* a form has exported its spec and still holds it, with the button enabled
C29_Witness ==
  /\ gen \in FormGenerators /\ lastOp = "download"
  /\ exported # Null /\ lastValid = exported.spec /\ downloadEnabled

(***************************************************************************)
(* The sign of a parsed value.                                             *)
(***************************************************************************)
\* the text begins with a minus sign followed by a digit
LeadingMinus(t) == Len(Trim(t)) >= 2 /\ Trim(t)[1] = "-" /\ IsDigit(Trim(t)[2])

\* C30: parseInches of the ellipse, flange and jumper pages never returns a
\* negative number: a text with a leading minus sign yields the value of the
\* text without the sign, and a "zero or positive" or "non-negative" error
\* is reported only for a text that is no number
C30_ParsedNeverNegative ==
  gen \in FormGenerators =>
    /\ \A f \in DOMAIN fields :
         /\ IsFinite(parseInches(fields[f])) => parseInches(fields[f]) >= 0
         /\ LeadingMinus(fields[f]) =>
               /\ IsFinite(parseInches(fields[f]))
               /\ parseInches(fields[f]) = parseInches(Tail(Trim(fields[f])))
    /\ (gen = "jumper" /\ lastOp = "validate") =>
         /\ "Bolt Hole Edge To OD must be zero or a positive number." \in Range(report)
               => ~IsFinite(parseInches(fields["boltEdgeToOD"]))
         /\ "ID Edge To OD must be zero or a positive number." \in Range(report)
               => ~IsFinite(parseInches(fields["idEdgeToOD"]))
    /\ (gen = "flange" /\ lastOp = "validate") =>
         /\ "Corner Radius must be blank or a non-negative number." \in Range(report)
               => ~IsFinite(parseInches(fields["cornerR"]))
         /\ "Center Cutout Corner Radius must be blank or a non-negative number."
               \in Range(report) => ~IsFinite(parseInches(fields["cutoutR"]))

\* the ellipse page has accepted a side typed with a leading minus sign
C30_Witness ==
  /\ gen = "ellipse" /\ lastValid # Null
  /\ LeadingMinus(fields["idLong"])
  /\ lastValid.idL = parseInches(Tail(Trim(fields["idLong"])))

(***************************************************************************)
(* The digits of a written coordinate.                                     *)
(***************************************************************************)
\* a function has been called on its own
Called(fn) == call # Null /\ call.fn = fn

\* the text is the decimal string of the double of v ten-millionths: all
\* seven decimals, none rounded away
WrittenInFull(v, text) == text = StringFine(v)

\* C21 as stated: every coordinate and radius written into an exported DXF
\* is the decimal string of the computed double itself, with no rounding to
\* fewer digits, in every serializer: String(x) of the POLYLINE vertices and
\* CIRCLEs of ellipse.js, flange.js and jumper.js, and fmt(n) of the LINE,
\* ARC and CIRCLE records of firetube.js
C21_CoordinatesUnrounded ==
  (Called("fmt") \/ Called("String")) => WrittenInFull(call.args[1], call.ret)

\* the same for the serializers of ellipse.js, flange.js and jumper.js
C21_FormCoordinatesUnrounded ==
  Called("String") => WrittenInFull(call.args[1], call.ret)

(***************************************************************************)
(* buildOD of the jumper.                                                  *)
(***************************************************************************)
\* buildOD returned { error }, no point list
ReturnedError(ret) == "error" \in DOMAIN ret /\ "pts" \notin DOMAIN ret

\* C22 as stated: buildOD(cc, RboltOuter, RidOuter) returns an error result
\* (no point list) for every input with cc / 2 <= |RboltOuter - RidOuter|,
\* the case cc / 2 = |RboltOuter - RidOuter| included
C22_BuildODErrorWhenContained ==
  (Called("buildOD") /\ call.args[1] <= 2 * Abs(call.args[2] - call.args[3])) =>
     ReturnedError(call.ret)

\* the same without the case of equality (and with the centres apart or not)
C22_BuildODErrorWhenStrictlyContained ==
  (Called("buildOD") /\ call.args[1] < 2 * Abs(call.args[2] - call.args[3])) =>
     ReturnedError(call.ret)

\* the three outer circles of buildOD: centre x, radius (all on the x axis)
OuterCircles(cc, RboltOuter, RidOuter) ==
  {<<-(cc \div 2), RboltOuter>>, <<0, RidOuter>>, <<cc \div 2, RboltOuter>>}

\* the point lies on the circle
OnCircle(p, c) == Near(Hypot(p[1] - c[1], p[2]), c[2])

\* edge k of the closed outline, from point k to the next (the last one to
\* the first), runs along one of the circles
ArcEdge(pts, k, circles) ==
  \E c \in circles : OnCircle(pts[k], c) /\ OnCircle(pts[(k % Len(pts)) + 1], c)

\* the pieces of a closed outline: its straight edges, and its arcs, an arc
\* being a maximal run of edges along a circle
OutlinePieces(pts, circles) ==
  LET n == Len(pts)
      arc == [k \in 1..n |-> ArcEdge(pts, k, circles)]
      prev(k) == IF k = 1 THEN n ELSE k - 1
  IN [straight |-> Cardinality({k \in 1..n : ~arc[k]}),
      arcs |-> Cardinality({k \in 1..n : arc[k] /\ ~arc[prev(k)]})]

\* the pieces of the outline a call of buildOD returned
ReturnedPieces ==
  OutlinePieces(call.ret.pts, OuterCircles(call.args[1], call.args[2], call.args[3]))

\* buildOD was called with cc / 2 > |RboltOuter - RidOuter|
CalledBuildODApart ==
  Called("buildOD") /\ call.args[1] > 2 * Abs(call.args[2] - call.args[3])

\* C23 as stated: for every input with cc / 2 > |RboltOuter - RidOuter|
\* buildOD returns a closed outline whose perimeter has exactly 2 straight
\* segments and 3 arcs
C23_OutlineTwoStraightThreeArcs ==
  CalledBuildODApart =>
    /\ ~ReturnedError(call.ret)
    /\ ReturnedPieces = [straight |-> 2, arcs |-> 3]

\* C23, amended: for every input with cc / 2 > |RboltOuter - RidOuter|
\* buildOD returns a closed outline (its last point is its first) whose
\* perimeter has exactly 4 straight segments, the tangents, and 4 arcs, on
\* the 3 outer circles
C23_OutlineFourStraightFourArcs ==
  CalledBuildODApart =>
    /\ ~ReturnedError(call.ret)
    /\ Near(call.ret.pts[Len(call.ret.pts)][1], call.ret.pts[1][1])
    /\ Near(call.ret.pts[Len(call.ret.pts)][2], call.ret.pts[1][2])
    /\ ReturnedPieces = [straight |-> 4, arcs |-> 4]

\* buildOD has returned the outline of a wide centre circle between two
\* small bolt circles
C23_Witness ==
  /\ CalledBuildODApart /\ ~ReturnedError(call.ret)
  /\ call.args[3] > call.args[2]

(***************************************************************************)
(* chosenArc of the jumper                                                 *)
(***************************************************************************)
\* the sweep of the candidate of arcPoints from angle a0 to angle a1
SweepOf(a0, a1, ccw) ==
  IF ccw THEN (IF a1 <= a0 THEN a1 + 36000 ELSE a1) - a0
  ELSE a0 - (IF a1 >= a0 THEN a1 - 36000 ELSE a1)

\* the point of an arc the outside test of chosenArc looks at
MidPoint(arc) == arc[(Len(arc) \div 2) + 1]

\* both candidates between the angles pass the outside test
BothOutside(r, a0, a1, side, ref) ==
  /\ Want(side, ref, MidPoint(arcPoints(0, 0, r, a0, a1, TRUE)))
  /\ Want(side, ref, MidPoint(arcPoints(0, 0, r, a0, a1, FALSE)))

\* the arc is the candidate between the angles with the smaller sweep
SmallerSweep(arc, r, a0, a1) ==
  /\ SweepOf(a0, a1, TRUE) < SweepOf(a0, a1, FALSE) => arc = arcPoints(0, 0, r, a0, a1, TRUE)
  /\ SweepOf(a0, a1, FALSE) < SweepOf(a0, a1, TRUE) => arc = arcPoints(0, 0, r, a0, a1, FALSE)

\* the two candidates between the angles have as many points
SameCount(r, a0, a1) ==
  Len(arcPoints(0, 0, r, a0, a1, TRUE)) = Len(arcPoints(0, 0, r, a0, a1, FALSE))

\* the end angles of a call of chosenArc about the origin
CallAngles ==
  <<angleOf(0, 0, call.args[2][1], call.args[2][2]),
    angleOf(0, 0, call.args[3][1], call.args[3][2])>>

\* chosenArc was called and both candidates passed the outside test
CalledChosenArcBothOutside ==
  /\ Called("chosenArc")
  /\ BothOutside(call.args[1], CallAngles[1], CallAngles[2], call.args[4], call.args[5])

\* C25: when both candidates of chosenArc pass the outside test, the arc
\* returned is the one with the smaller sweep, for every radius, also one
\* where both candidates get the minimum number of segments
C25_TieBreakSmallerSweep ==
  CalledChosenArcBothOutside =>
    SmallerSweep(call.ret, call.args[1], CallAngles[1], CallAngles[2])

\* the part of C25 that holds: when both candidates pass the outside test
\* and differ in their number of points, the arc returned is the one with
\* the smaller sweep
C25_TieBreakSmallerSweepWhenCountsDiffer ==
  CalledChosenArcBothOutside /\ ~SameCount(call.args[1], CallAngles[1], CallAngles[2]) =>
    SmallerSweep(call.ret, call.args[1], CallAngles[1], CallAngles[2])

\* the outside test of chosenArc on one of its two candidates
OutsideTest(cx, r, pStart, pEnd, side, ref, ccw) ==
  Want(side, ref, MidPoint(arcPoints(cx, 0, r, angleOf(cx, 0, pStart[1], pStart[2]),
                                     angleOf(cx, 0, pEnd[1], pEnd[2]), ccw)))

\* exactly one candidate of a call of chosenArc passes the outside test
ExactlyOneOutside(cx, r, pStart, pEnd, side, ref) ==
  OutsideTest(cx, r, pStart, pEnd, side, ref, TRUE)
    # OutsideTest(cx, r, pStart, pEnd, side, ref, FALSE)

\* the same in each of the four calls buildOD makes with the tangent pairs
ExactlyOneInEachCall(cc, RboltOuter, RidOuter, tLC, tCR) ==
  /\ ExactlyOneOutside(0, RidOuter, tLC.top.p2, tCR.top.p1, "above", 0)
  /\ ExactlyOneOutside(cc \div 2, RboltOuter, tCR.top.p2, tCR.bottom.p2, "right", cc \div 2)
  /\ ExactlyOneOutside(0, RidOuter, tCR.bottom.p1, tLC.bottom.p2, "below", 0)
  /\ ExactlyOneOutside(-(cc \div 2), RboltOuter, tLC.bottom.p1, tLC.top.p1, "left", -(cc \div 2))

\* the same for the calls buildOD makes for an accepted spec
ExactlyOneForSpec(v) ==
  ExactlyOneInEachCall(v.cc, v.RboltOuter, v.RidOuter,
                       externalTangents(-(v.cc \div 2), 0, v.RboltOuter, 0, 0, v.RidOuter),
                       externalTangents(0, 0, v.RidOuter, v.cc \div 2, 0, v.RboltOuter))

\* C26: for every jumper input that passes validation, in each of the four
\* chosenArc calls of buildOD exactly one candidate passes its outside
\* test, so the tie-break is never reached
C26_ExactlyOneCandidateOutside ==
  (gen = "jumper" /\ lastValid # Null) => ExactlyOneForSpec(lastValid)

\* the part of C26 that holds: the same for accepted inputs whose outer
\* radii differ
C26_ExactlyOneCandidateOutsideUnequalRadii ==
  (gen = "jumper" /\ lastValid # Null /\ lastValid.RboltOuter # lastValid.RidOuter) =>
    ExactlyOneForSpec(lastValid)

(***************************************************************************)
(* The outline of the jumper as a closed curve                             *)
(***************************************************************************)
\* the sweep of the arc chosenArc returns
ChosenSweep(cx, r, pStart, pEnd, side, ref) ==
  SweepOf(angleOf(cx, 0, pStart[1], pStart[2]), angleOf(cx, 0, pEnd[1], pEnd[2]),
          chosenArc(cx, 0, r, pStart, pEnd, side, ref)
            = arcPoints(cx, 0, r, angleOf(cx, 0, pStart[1], pStart[2]),
                        angleOf(cx, 0, pEnd[1], pEnd[2]), TRUE))

\* two points agree within the tolerance
NearPoint(p, q) == Near(p[1], q[1]) /\ Near(p[2], q[2])

\* the arc chosenArc returns starts at pStart, ends at pEnd, and sweeps
\* less than a full turn
ArcJoins(cx, r, pStart, pEnd, side, ref) ==
  /\ NearPoint(chosenArc(cx, 0, r, pStart, pEnd, side, ref)[1], pStart)
  /\ NearPoint(chosenArc(cx, 0, r, pStart, pEnd, side, ref)
                 [Len(chosenArc(cx, 0, r, pStart, pEnd, side, ref))], pEnd)
  /\ ChosenSweep(cx, r, pStart, pEnd, side, ref) < 36000

\* the sign of a number: 1, -1 or 0
Sign(x) == IF x > 0 THEN 1 ELSE IF x < 0 THEN -1 ELSE 0

\* the side of the line through a and b the point c lies on: 1, -1, or 0
SideOfLine(a, b, c) ==
  Sign((b[1] - a[1]) * (c[2] - a[2]) - (b[2] - a[2]) * (c[1] - a[1]))

\* the segments a b and c d cross in a point inside both
SegmentsCross(a, b, c, d) ==
  /\ SideOfLine(a, b, c) * SideOfLine(a, b, d) < 0
  /\ SideOfLine(c, d, a) * SideOfLine(c, d, b) < 0

\* the eight pieces buildOD assembles from the tangent pairs join end to
\* start, no arc is a full turn, and no two tangent segments cross
PiecesJoin(cc, RboltOuter, RidOuter, tLC, tCR) ==
  /\ ArcJoins(0, RidOuter, tLC.top.p2, tCR.top.p1, "above", 0)
  /\ ArcJoins(cc \div 2, RboltOuter, tCR.top.p2, tCR.bottom.p2, "right", cc \div 2)
  /\ ArcJoins(0, RidOuter, tCR.bottom.p1, tLC.bottom.p2, "below", 0)
  /\ ArcJoins(-(cc \div 2), RboltOuter, tLC.bottom.p1, tLC.top.p1, "left", -(cc \div 2))
  /\ ~SegmentsCross(tLC.top.p1, tLC.top.p2, tCR.top.p1, tCR.top.p2)
  /\ ~SegmentsCross(tLC.bottom.p1, tLC.bottom.p2, tCR.bottom.p1, tCR.bottom.p2)

\* the same for the outline of an accepted spec
PiecesJoinForSpec(v) ==
  PiecesJoin(v.cc, v.RboltOuter, v.RidOuter,
             externalTangents(-(v.cc \div 2), 0, v.RboltOuter, 0, 0, v.RidOuter),
             externalTangents(0, 0, v.RidOuter, v.cc \div 2, 0, v.RboltOuter))

\* C24: for every accepted jumper input, also with RboltOuter = RidOuter,
\* the outline is the cycle left outer arc, top tangent, centre top arc,
\* top tangent, right outer arc, bottom tangent, centre bottom arc, bottom
\* tangent; each piece starts where the one before ends, every arc sweeps
\* less than a full turn, and the curve is simple (of which this formula
\* states only that the tangent segments do not cross one another)
C24_OutlinePiecesJoinSimply ==
  (gen = "jumper" /\ lastValid # Null) => PiecesJoinForSpec(lastValid)

\* the part of C24 that holds: the same for accepted inputs whose centre
\* outer radius is the larger one
C24_OutlinePiecesJoinSimplyWideCentre ==
  (gen = "jumper" /\ lastValid # Null /\ lastValid.RidOuter > lastValid.RboltOuter) =>
    PiecesJoinForSpec(lastValid)

\* C24 for the case of a smaller centre circle alone: the outline is not
\* simple, its two top tangent segments cross
C24_OutlinePiecesJoinSimplyNarrowCentre ==
  (gen = "jumper" /\ lastValid # Null /\ lastValid.RidOuter < lastValid.RboltOuter) =>
    PiecesJoinForSpec(lastValid)

(***************************************************************************)
(* sdfRoundedRect of the flange                                            *)
(***************************************************************************)
\* the point lies strictly inside the rectangle of half sides hw and hh
\* with corners rounded by rr: inside the rectangle, and where it is in a
\* corner square, closer than rr to the centre of the corner circle
StrictlyInside(px, py, hw, hh, rr) ==
  /\ Abs(px) < hw /\ Abs(py) < hh
  /\ (Abs(px) > hw - rr /\ Abs(py) > hh - rr) =>
       (Abs(px) - (hw - rr)) * (Abs(px) - (hw - rr))
         + (Abs(py) - (hh - rr)) * (Abs(py) - (hh - rr)) < rr * rr

\* the signs sdfRoundedRect is to have for one argument list and result
SdfSigns(px, py, hw, hh, rr, ret) ==
  /\ (px = 0 /\ py = 0 /\ rr = 0) => ret = -Min(hw, hh)
  /\ ((Abs(px) > hw \/ Abs(py) > hh) /\ 0 <= rr /\ rr <= Min(hw, hh)) => ret > 0
  /\ StrictlyInside(px, py, hw, hh, rr) => ret < 0

\* C27: sdfRoundedRect(0, 0, hw, hh, 0) is -min(hw, hh); for a point with
\* |x| > hw or |y| > hh and 0 <= rr <= min(hw, hh) the result is above 0;
\* for a point strictly inside the rounded rectangle it is below 0
C27_SdfRoundedRectSigns ==
  Called("sdfRoundedRect") =>
    SdfSigns(call.args[1], call.args[2], call.args[3], call.args[4], call.args[5], call.ret)

\* sdfRoundedRect was applied to a point strictly inside the rounded
\* rectangle that lies in one of its corner squares
C27_Witness ==
  /\ Called("sdfRoundedRect")
  /\ call.args[5] > 0
  /\ Abs(call.args[1]) > call.args[3] - call.args[5]
  /\ Abs(call.args[2]) > call.args[4] - call.args[5]
  /\ StrictlyInside(call.args[1], call.args[2], call.args[3], call.args[4], call.args[5])
  /\ call.ret < 0

====
